---- MODULE Spec2Model ----
(***************************************************************************)
(* A model of the Sandstorm/Splinter Master service (db/src/master.rs):    *)
(* the sharded tenant registry, the native get() and put() handlers and    *)
(* their generators, invoke(), and dispatch().  The receive / execute /    *)
(* transmit steps that drive the service are modelled around it, with the  *)
(* tasks' run(), the extensions' Context calls (db/src/context.rs) and the *)
(* pushback of a task that has overrun its budget.  The client is          *)
(* AuthRecvSend (splinter/src/bin/client/auth.rs): send(), recv() and      *)
(* execute_task(), which runs pushed-back tasks on the client.             *)
(*                                                                         *)
(* Option<T> is modelled as a set with at most one element: {} is None,    *)
(* {x} is Some(x).  A map is a function whose DOMAIN is its key set.       *)
(* A Rust String is modelled by its UTF-8 bytes.                           *)
(***************************************************************************)
EXTENDS Integers, Sequences, FiniteSets, TLC

VARIABLES
    tenants,      \* Master.tenants: bucket -> map TenantId -> handle of an Arc<Tenant>
    tenantObjs,   \* the Tenant objects behind the Arc handles (handle = index)
    extensions,   \* Master.extensions: the (tenant, name) pairs an extension is loaded for
    tasks,        \* the run-queue: the tasks dispatch() returned, not yet finished (FIFO)
    out,          \* the (request, response) pair last handed to transmit, if any
    panicked,     \* the worker aborted: the request whose dispatch panicked
    acked,        \* history: (handle, table, key) -> value of the last put answered StatusOk
    client,       \* the client (AuthRecvSend): its fields and its position in execute()
    filling,      \* the calls of fill_test under way: each one's local tenant and loop index
    ycsb          \* the shared Ycsb benchmark: its flag `done` and the threads in abc()

vars == <<tenants, tenantObjs, extensions, tasks, out, panicked, acked, client, filling, ycsb>>

----------------------------------------------------------------------------
(* Program constants *)

TENANT_BUCKETS == 32
FillKeyLen == 30
FillValLen == 100

\* client/auth.rs
KEY_LENGTH == 30
VAL_LENGTH == 72
RECORD_SIZE == 71
WINDOW == 32           \* send(): requests outstanding at most
WAITING_LIMIT == 100000

(* Bounds of the model *)

MaxTenantObjs == 2     \* Tenant objects ever created by fill_test
MaxNum == 1            \* largest `num` handed to fill_test
MaxTasks == 1          \* tasks waiting in the run-queue (Spec)
MaxKVTasks == 2        \* tasks waiting in the run-queue (SpecKV)
PayloadCapacity == 300 \* bytes a response packet's payload can hold
CyclesBudget == 1      \* cycles_budget of a Container task
MaxSliceCycles == 2    \* most cycles one slice of an extension consumes
MaxSchedTasks == 2     \* tasks waiting in the run-queue (SpecSched)
Resps == 2             \* responses the client waits for (resps)
NumReqs == 1           \* requests the client is configured to issue (num_reqs)
MaxBatch == 2          \* packets one poll of the receive queue returns
MaxDelivered == 3      \* packets the network ever delivers to the client
MaxDbTasks == 1        \* tasks in the run-queue of the two-tenant server
MaxRegObjs == 3        \* Tenant objects fill_test creates in the registry runs

----------------------------------------------------------------------------
(* Maps and options *)

MapGet(m, k) == IF k \in DOMAIN m THEN {m[k]} ELSE {}

MapPut(m, k, v) == [x \in (DOMAIN m) \cup {k} |-> IF x = k THEN v ELSE m[x]]

The(opt) == CHOOSE x \in opt : TRUE

split_at(s, n) == <<SubSeq(s, 1, n), SubSeq(s, n + 1, Len(s))>>

----------------------------------------------------------------------------
(* Wire format: RPC status, opcodes, response headers *)

OpCodes == {"SandstormGetRpc", "SandstormPutRpc", "SandstormInvokeRpc", "InvalidOperation"}

\* A packet parsed up to its UDP header: no RPC header, no payload yet.
UdpResponse == [hdr |-> "Udp", payload |-> <<>>]

\* res.push_header(&GetResponse::new(stamp)), PutResponse::new, InvokeResponse::new
push_header(res, hdr, rpc_stamp) ==
    IF hdr = "GetResponse"
    THEN [hdr |-> hdr, status |-> "StatusOk", stamp |-> rpc_stamp,
          value_length |-> 0, payload |-> res.payload]
    ELSE [hdr |-> hdr, status |-> "StatusOk", stamp |-> rpc_stamp,
          payload |-> res.payload]

\* Packet::add_to_payload_tail: None when the bytes do not fit.
add_to_payload_tail(res, data) ==
    IF Len(res.payload) + Len(data) > PayloadCapacity
    THEN {}
    ELSE {[res EXCEPT !.payload = res.payload \o data]}

set_status(res, status) == [res EXCEPT !.status = status]

----------------------------------------------------------------------------
(* String::from_utf8: whether a byte string is well-formed UTF-8 *)

Cont(b) == b >= 128 /\ b <= 191

RECURSIVE IsUtf8(_)
IsUtf8(s) ==
    IF s = <<>> THEN TRUE
    ELSE LET b == s[1]
             n == Len(s)
         IN  IF b < 128 THEN IsUtf8(Tail(s))
             ELSE IF b >= 194 /\ b <= 223
                  THEN n >= 2 /\ Cont(s[2]) /\ IsUtf8(SubSeq(s, 3, n))
             ELSE IF b >= 224 /\ b <= 239
                  THEN /\ n >= 3
                       /\ Cont(s[2]) /\ Cont(s[3])
                       /\ (b = 224 => s[2] >= 160)
                       /\ (b = 237 => s[2] <= 159)
                       /\ IsUtf8(SubSeq(s, 4, n))
             ELSE IF b >= 240 /\ b <= 244
                  THEN /\ n >= 4
                       /\ Cont(s[2]) /\ Cont(s[3]) /\ Cont(s[4])
                       /\ (b = 240 => s[2] >= 144)
                       /\ (b = 244 => s[2] <= 143)
                       /\ IsUtf8(SubSeq(s, 5, n))
             ELSE FALSE

\* Option<String>
from_utf8(bytes) == IF IsUtf8(bytes) THEN {bytes} ELSE {}

----------------------------------------------------------------------------
(* Allocator, Table, Tenant, ExtensionManager: the interfaces Master uses *)

\* Allocator::object(tenant, table, key, val) -> Option<(key, object)>;
\* `fits` is whether the heap could allocate the record.
object(tenant_id, table_id, key, val, fits) ==
    IF fits THEN {<<key, [tenant |-> tenant_id, table |-> table_id,
                          key |-> key, value |-> val]>>}
    ELSE {}

\* Allocator::resolve(object) -> Option<(key, value)>
resolve(obj) == {<<obj.key, obj.value>>}

\* Table::get(key) -> Option<object>, Table::put(key, object)
table_get(table, key) == MapGet(table, key)

table_put(table, key, obj) == MapPut(table, key, obj)

\* Tenant::new(id), Tenant::create_table(id), Tenant::get_table(id)
Tenant_new(tenant_id) == [id |-> tenant_id, tables |-> <<>>]

create_table(tenant, table_id) ==
    [tenant EXCEPT !.tables = MapPut(tenant.tables, table_id, <<>>)]

get_table(tenant, table_id) == MapGet(tenant.tables, table_id)

\* ExtensionManager::get(tenant, name) -> Option<extension>
ext_get(tenant_id, name) ==
    IF <<tenant_id, name>> \in extensions THEN {name} ELSE {}

\* ExtensionManager::load(path, tenant, name)
ext_load(exts, tenant_id, name) == exts \cup {<<tenant_id, name>>}

NameGet == <<103, 101, 116>>
NamePut == <<112, 117, 116>>
NameTao == <<116, 97, 111>>

----------------------------------------------------------------------------
(* Master: the tenant registry *)

bucket(tenant_id) == ((tenant_id % 256) % TENANT_BUCKETS)

get_tenant(tenant_id) == MapGet(tenants[bucket(tenant_id)], tenant_id)

\* Mutant of insert_tenant: the bucket's map is replaced by the new entry.
insert_tenant_alone_in_bucket(tenant_id, handle) ==
    [tenants EXCEPT ![bucket(tenant_id)] = MapPut(<<>>, tenant_id, handle)]

insert_tenant(tenant_id, handle) ==
    [tenants EXCEPT ![bucket(tenant_id)] = MapPut(@, tenant_id, handle)]

(* Master::fill_test: the objects it allocates *)

le_bytes(i) == <<i % 256, (i \div 256) % 256, (i \div 65536) % 256,
                 (i \div 16777216) % 256>>

FillKey(i) == le_bytes(i) \o [j \in 1..(FillKeyLen - 4) |-> 0]

FillVal(i) == le_bytes(i) \o [j \in 1..(FillValLen - 4) |-> 0]

RECURSIVE fill_table(_, _, _, _)
fill_table(table, tenant_id, table_id, num) ==
    IF num = 0 THEN table
    ELSE LET filled == fill_table(table, tenant_id, table_id, num - 1)
             obj == The(object(tenant_id, table_id, FillKey(num), FillVal(num), TRUE))
         IN  table_put(filled, obj[1], obj[2])

----------------------------------------------------------------------------
(* Result<Box<Task>, (request, response)>, and a panic of the worker *)

Ok(task) == [tag |-> "Ok", task |-> task]

Err(req, res) == [tag |-> "Err", req |-> req, res |-> res]

Panic(req, msg) == [tag |-> "Panic", req |-> req, msg |-> msg]

----------------------------------------------------------------------------
(* Task states, and Native::new(priority, generator): the generator is the  *)
(* closure built by get() or put() with what it captured.                   *)

TaskStates == {"INITIALIZED", "RUNNABLE", "YIELDED", "WAITING", "COMPLETED"}

Native_new(gen, req, res, tenant, tenant_id, table_id, key_length) ==
    [kind |-> "Native", gen |-> gen, req |-> req, res |-> res,
     tenant |-> tenant, tenant_id |-> tenant_id,
     table_id |-> table_id, key_length |-> key_length,
     state |-> "INITIALIZED", time |-> 0]

----------------------------------------------------------------------------
(* Master::get and the generator of the Native task it returns *)

get(req, res0) ==
    LET tenant_id == req.tenant
        table_id == req.table_id
        key_length == req.key_length
        rpc_stamp == req.stamp
        res == push_header(res0, "GetResponse", rpc_stamp)
    IN  IF Len(req.payload) < key_length
        THEN Err(req, set_status(res, "StatusMalformedRequest"))
        ELSE Ok(Native_new("get", req, res, get_tenant(tenant_id), tenant_id,
                       table_id, key_length))

\* Mutant of get_gen: the tenant is looked up when the generator runs.
get_gen_lookup_at_run(t) ==
    LET tenant == get_tenant(t.tenant_id)
        table == IF tenant = {} THEN {}
                 ELSE get_table(tenantObjs[The(tenant)], t.table_id)
        key == split_at(t.req.payload, t.key_length)[1]
        obj == IF table = {} THEN {} ELSE table_get(The(table), key)
        kv == IF obj = {} THEN {} ELSE resolve(The(obj))
        written == IF kv = {} THEN {} ELSE add_to_payload_tail(t.res, The(kv)[2])
    IN  IF tenant = {} THEN set_status(t.res, "StatusTenantDoesNotExist")
        ELSE IF table = {} THEN set_status(t.res, "StatusTableDoesNotExist")
        ELSE IF obj = {} THEN set_status(t.res, "StatusObjectDoesNotExist")
        ELSE IF kv = {} THEN set_status(t.res, "StatusInternalError")
        ELSE IF written = {} THEN set_status(t.res, "StatusInternalError")
        ELSE LET res == The(written)
             IN  [res EXCEPT !.value_length = Len(res.payload),
                             !.status = "StatusOk"]

\* Mutant of get_gen: the header's value_length is never written.
get_gen_no_length(t) ==
    LET table == IF t.tenant = {} THEN {}
                 ELSE get_table(tenantObjs[The(t.tenant)], t.table_id)
        key == split_at(t.req.payload, t.key_length)[1]
        obj == IF table = {} THEN {} ELSE table_get(The(table), key)
        kv == IF obj = {} THEN {} ELSE resolve(The(obj))
        written == IF kv = {} THEN {} ELSE add_to_payload_tail(t.res, The(kv)[2])
    IN  IF t.tenant = {} THEN set_status(t.res, "StatusTenantDoesNotExist")
        ELSE IF table = {} THEN set_status(t.res, "StatusTableDoesNotExist")
        ELSE IF obj = {} THEN set_status(t.res, "StatusObjectDoesNotExist")
        ELSE IF kv = {} THEN set_status(t.res, "StatusInternalError")
        ELSE IF written = {} THEN set_status(t.res, "StatusInternalError")
        ELSE set_status(The(written), "StatusOk")

\* Mutant of get_gen: a missing key is answered StatusOk with an empty value.
get_gen_ok_empty(t) ==
    LET table == IF t.tenant = {} THEN {}
                 ELSE get_table(tenantObjs[The(t.tenant)], t.table_id)
        key == split_at(t.req.payload, t.key_length)[1]
        obj == IF table = {} THEN {} ELSE table_get(The(table), key)
        kv == IF obj = {} THEN {} ELSE resolve(The(obj))
        written == IF kv = {} THEN {} ELSE add_to_payload_tail(t.res, The(kv)[2])
    IN  IF t.tenant = {} THEN set_status(t.res, "StatusTenantDoesNotExist")
        ELSE IF table = {} THEN set_status(t.res, "StatusTableDoesNotExist")
        ELSE IF obj = {} THEN set_status(t.res, "StatusOk")
        ELSE IF kv = {} THEN set_status(t.res, "StatusInternalError")
        ELSE IF written = {} THEN set_status(t.res, "StatusInternalError")
        ELSE LET res == The(written)
             IN  [res EXCEPT !.value_length = Len(res.payload),
                             !.status = "StatusOk"]

\* Mutant of get_gen: the status starts at StatusTableDoesNotExist, so a
\* missing tenant is reported as a missing table.
get_gen_table_status(t) ==
    LET table == IF t.tenant = {} THEN {}
                 ELSE get_table(tenantObjs[The(t.tenant)], t.table_id)
        key == split_at(t.req.payload, t.key_length)[1]
        obj == IF table = {} THEN {} ELSE table_get(The(table), key)
        kv == IF obj = {} THEN {} ELSE resolve(The(obj))
        written == IF kv = {} THEN {} ELSE add_to_payload_tail(t.res, The(kv)[2])
    IN  IF t.tenant = {} THEN set_status(t.res, "StatusTableDoesNotExist")
        ELSE IF table = {} THEN set_status(t.res, "StatusTableDoesNotExist")
        ELSE IF obj = {} THEN set_status(t.res, "StatusObjectDoesNotExist")
        ELSE IF kv = {} THEN set_status(t.res, "StatusInternalError")
        ELSE IF written = {} THEN set_status(t.res, "StatusInternalError")
        ELSE LET res == The(written)
             IN  [res EXCEPT !.value_length = Len(res.payload),
                             !.status = "StatusOk"]

\* The generator's body: the response it leaves in the packet.
get_gen(t) ==
    LET table == IF t.tenant = {} THEN {}
                 ELSE get_table(tenantObjs[The(t.tenant)], t.table_id)
        key == split_at(t.req.payload, t.key_length)[1]
        obj == IF table = {} THEN {} ELSE table_get(The(table), key)
        kv == IF obj = {} THEN {} ELSE resolve(The(obj))
        written == IF kv = {} THEN {} ELSE add_to_payload_tail(t.res, The(kv)[2])
    IN  IF t.tenant = {} THEN set_status(t.res, "StatusTenantDoesNotExist")
        ELSE IF table = {} THEN set_status(t.res, "StatusTableDoesNotExist")
        ELSE IF obj = {} THEN set_status(t.res, "StatusObjectDoesNotExist")
        ELSE IF kv = {} THEN set_status(t.res, "StatusInternalError")
        ELSE IF written = {} THEN set_status(t.res, "StatusInternalError")
        ELSE LET res == The(written)
             IN  \* `as u32` loses nothing: a payload is far shorter than 2^32 bytes
                 [res EXCEPT !.value_length = Len(res.payload),
                             !.status = "StatusOk"]

(* Master::put and the generator of the Native task it returns *)

\* Mutant of put: the payload length is not checked against key_length.
put_no_length_check(req, res0) ==
    LET tenant_id == req.tenant
        table_id == req.table_id
        key_length == req.key_length
        rpc_stamp == req.stamp
        res == push_header(res0, "PutResponse", rpc_stamp)
    IN  Ok(Native_new("put", req, res, get_tenant(tenant_id), tenant_id,
                  table_id, key_length))

put(req, res0) ==
    LET tenant_id == req.tenant
        table_id == req.table_id
        key_length == req.key_length
        rpc_stamp == req.stamp
        res == push_header(res0, "PutResponse", rpc_stamp)
    IN  IF Len(req.payload) < key_length
        THEN Err(req, set_status(res, "StatusMalformedRequest"))
        ELSE Ok(Native_new("put", req, res, get_tenant(tenant_id), tenant_id,
                       table_id, key_length))

\* Mutant of put_gen: a key that is already in the table keeps its object.
put_gen_keep_first(t, fits) ==
    LET table == IF t.tenant = {} THEN {}
                 ELSE get_table(tenantObjs[The(t.tenant)], t.table_id)
        kv == split_at(t.req.payload, t.key_length)
        key == kv[1]
        val == kv[2]
        alloc == object(t.tenant_id, t.table_id, key, val, fits)
    IN  IF t.tenant = {}
        THEN [res |-> set_status(t.res, "StatusTenantDoesNotExist"), objs |-> tenantObjs]
        ELSE IF table = {}
        THEN [res |-> set_status(t.res, "StatusTableDoesNotExist"), objs |-> tenantObjs]
        ELSE IF ~(Len(val) > 0)
        THEN [res |-> set_status(t.res, "StatusMalformedRequest"), objs |-> tenantObjs]
        ELSE IF alloc = {}
        THEN [res |-> set_status(t.res, "StatusInternalError"), objs |-> tenantObjs]
        ELSE [res |-> set_status(t.res, "StatusOk"),
              objs |-> IF key \in DOMAIN The(table) THEN tenantObjs
                       ELSE [tenantObjs EXCEPT ![The(t.tenant)].tables[t.table_id] =
                                table_put(The(table), The(alloc)[1], The(alloc)[2])]]

\* Mutant of put_gen: a table the tenant does not own is created by the put.
put_gen_create_table(t, fits) ==
    LET table == IF t.tenant = {} THEN {}
                 ELSE get_table(tenantObjs[The(t.tenant)], t.table_id)
        kv == split_at(t.req.payload, t.key_length)
        key == kv[1]
        val == kv[2]
        alloc == object(t.tenant_id, t.table_id, key, val, fits)
    IN  IF t.tenant = {}
        THEN [res |-> set_status(t.res, "StatusTenantDoesNotExist"), objs |-> tenantObjs]
        ELSE IF table = {}
        THEN [res |-> set_status(t.res, "StatusTableDoesNotExist"),
              objs |-> [tenantObjs EXCEPT ![The(t.tenant)] =
                            create_table(@, t.table_id)]]
        ELSE IF ~(Len(val) > 0)
        THEN [res |-> set_status(t.res, "StatusMalformedRequest"), objs |-> tenantObjs]
        ELSE IF alloc = {}
        THEN [res |-> set_status(t.res, "StatusInternalError"), objs |-> tenantObjs]
        ELSE [res |-> set_status(t.res, "StatusOk"),
              objs |-> [tenantObjs EXCEPT ![The(t.tenant)].tables[t.table_id] =
                            table_put(The(table), The(alloc)[1], The(alloc)[2])]]

\* Mutant of put_gen: a put without a value installs an empty object.
put_gen_empty_value(t, fits) ==
    LET table == IF t.tenant = {} THEN {}
                 ELSE get_table(tenantObjs[The(t.tenant)], t.table_id)
        kv == split_at(t.req.payload, t.key_length)
        key == kv[1]
        val == kv[2]
        alloc == object(t.tenant_id, t.table_id, key, val, fits)
    IN  IF t.tenant = {}
        THEN [res |-> set_status(t.res, "StatusTenantDoesNotExist"), objs |-> tenantObjs]
        ELSE IF table = {}
        THEN [res |-> set_status(t.res, "StatusTableDoesNotExist"), objs |-> tenantObjs]
        ELSE IF alloc = {}
        THEN [res |-> set_status(t.res, "StatusInternalError"), objs |-> tenantObjs]
        ELSE [res |-> set_status(t.res, "StatusOk"),
              objs |-> [tenantObjs EXCEPT ![The(t.tenant)].tables[t.table_id] =
                            table_put(The(table), The(alloc)[1], The(alloc)[2])]]

\* Mutant of put_gen: the status is set to Ok before the allocation.
put_gen_ok_before_alloc(t, fits) ==
    LET table == IF t.tenant = {} THEN {}
                 ELSE get_table(tenantObjs[The(t.tenant)], t.table_id)
        kv == split_at(t.req.payload, t.key_length)
        key == kv[1]
        val == kv[2]
        alloc == object(t.tenant_id, t.table_id, key, val, fits)
    IN  IF t.tenant = {}
        THEN [res |-> set_status(t.res, "StatusTenantDoesNotExist"), objs |-> tenantObjs]
        ELSE IF table = {}
        THEN [res |-> set_status(t.res, "StatusTableDoesNotExist"), objs |-> tenantObjs]
        ELSE IF ~(Len(val) > 0)
        THEN [res |-> set_status(t.res, "StatusMalformedRequest"), objs |-> tenantObjs]
        ELSE IF alloc = {}
        THEN [res |-> set_status(t.res, "StatusOk"), objs |-> tenantObjs]
        ELSE [res |-> set_status(t.res, "StatusOk"),
              objs |-> [tenantObjs EXCEPT ![The(t.tenant)].tables[t.table_id] =
                            table_put(The(table), The(alloc)[1], The(alloc)[2])]]

\* The generator's body: the response, and the Tenant objects after table.put.
\* `fits` is whether the allocator can allocate the object.
put_gen(t, fits) ==
    LET table == IF t.tenant = {} THEN {}
                 ELSE get_table(tenantObjs[The(t.tenant)], t.table_id)
        kv == split_at(t.req.payload, t.key_length)
        key == kv[1]
        val == kv[2]
        alloc == object(t.tenant_id, t.table_id, key, val, fits)
    IN  IF t.tenant = {}
        THEN [res |-> set_status(t.res, "StatusTenantDoesNotExist"), objs |-> tenantObjs]
        ELSE IF table = {}
        THEN [res |-> set_status(t.res, "StatusTableDoesNotExist"), objs |-> tenantObjs]
        ELSE IF ~(Len(val) > 0)
        THEN [res |-> set_status(t.res, "StatusMalformedRequest"), objs |-> tenantObjs]
        ELSE IF alloc = {}
        THEN [res |-> set_status(t.res, "StatusInternalError"), objs |-> tenantObjs]
        ELSE [res |-> set_status(t.res, "StatusOk"),
              objs |-> [tenantObjs EXCEPT ![The(t.tenant)].tables[t.table_id] =
                            table_put(The(table), The(alloc)[1], The(alloc)[2])]]

----------------------------------------------------------------------------
(* Context::new and Context::commit *)

\* Mutant of Context_new: every context is bound to the first Tenant object.
Context_new_first_tenant(req, args_off, args_len, res, tenant) ==
    [request |-> req, args_offset |-> args_off, args_length |-> args_len,
     response |-> res, tenant |-> 1]

Context_new(req, args_off, args_len, res, tenant) ==
    [request |-> req, args_offset |-> args_off, args_length |-> args_len,
     response |-> res, tenant |-> tenant]

commit(db) == <<db.request, db.response>>

(* impl DB for Context.  `objs` are the Tenant objects as the call finds    *)
(* them; db.tenant is the handle of the Arc<Tenant> the context holds.      *)

\* Allocator::raw(tenant, table, key, val_len) -> Option<buffer>: an object
\* whose value region is val_len zero bytes; `fits` is whether the heap can
\* allocate it.
raw(tenant_id, table_id, key, val_len, fits) ==
    IF fits THEN {[tenant |-> tenant_id, table |-> table_id, key |-> key,
                   value |-> [j \in 1..val_len |-> 0]]}
    ELSE {}

\* WriteBuf::new(table, buffer), WriteBuf::write_slice, WriteBuf::freeze
WriteBuf_new(table_id, buf) == [table_id |-> table_id, buf |-> buf]

write_slice(wbuf, data) == [wbuf EXCEPT !.buf.value = data]

freeze(wbuf) == <<wbuf.table_id, wbuf.buf>>

\* Mutant of Context_get: the key of the resolved pair is handed out.
Context_get_key(db, objs, table_id, key) ==
    LET table == get_table(objs[db.tenant], table_id)
        obj == IF table = {} THEN {} ELSE table_get(The(table), key)
        kv == IF obj = {} THEN {} ELSE resolve(The(obj))
    IN  IF kv = {} THEN {} ELSE {The(kv)[1]}

\* Context::get -> Option<ReadBuf>
Context_get(db, objs, table_id, key) ==
    LET table == get_table(objs[db.tenant], table_id)
        obj == IF table = {} THEN {} ELSE table_get(The(table), key)
        kv == IF obj = {} THEN {} ELSE resolve(The(obj))
    IN  IF kv = {} THEN {} ELSE {The(kv)[2]}

\* Context::alloc -> Option<WriteBuf>
Context_alloc(db, objs, table_id, key, val_len, fits) ==
    LET table == get_table(objs[db.tenant], table_id)
        buf == IF table = {} THEN {}
               ELSE raw(objs[db.tenant].id, table_id, key, val_len, fits)
    IN  IF buf = {} THEN {} ELSE {WriteBuf_new(table_id, The(buf))}

\* Mutant of Context_put: a table the tenant does not have is created.
Context_put_create_table(db, objs, wbuf) ==
    LET table_id == freeze(wbuf)[1]
        buf == freeze(wbuf)[2]
        table == get_table(objs[db.tenant], table_id)
        kv == resolve(buf)
    IN  IF table # {} /\ kv # {}
        THEN [ok |-> TRUE,
              objs |-> [objs EXCEPT ![db.tenant].tables[table_id] =
                            table_put(The(table), The(kv)[1], buf)]]
        ELSE [ok |-> FALSE,
              objs |-> [objs EXCEPT ![db.tenant] = create_table(@, table_id)]]

\* Context::put -> bool, and the Tenant objects after table.put
Context_put(db, objs, wbuf) ==
    LET table_id == freeze(wbuf)[1]
        buf == freeze(wbuf)[2]
        table == get_table(objs[db.tenant], table_id)
        kv == resolve(buf)
    IN  IF table # {} /\ kv # {}
        THEN [ok |-> TRUE,
              objs |-> [objs EXCEPT ![db.tenant].tables[table_id] =
                            table_put(The(table), The(kv)[1], buf)]]
        ELSE [ok |-> FALSE, objs |-> objs]

\* Context::args
Context_args(db) ==
    split_at(split_at(db.request.payload, db.args_offset)[2], db.args_length)[1]

\* Context::resp: add_to_payload_tail(..).unwrap().  Some(context) when the
\* data fitted; None stands for the panic of unwrap() when it did not.
Context_resp(db, data) ==
    LET r == add_to_payload_tail(db.response, data)
    IN  IF r = {} THEN {} ELSE {[db EXCEPT !.response = The(r)]}

----------------------------------------------------------------------------
(* Extensions.  The code of an extension is not part of the Master: it is   *)
(* modelled as a script of Context calls, cut into the slices between its   *)
(* yields, and selected by the first byte of the invocation's arguments.    *)

\* The 30-byte key and 40-byte value of the auth deployment (the sizes the
\* client decodes pushback records with), and fill_test's first key.
AuthKey == [j \in 1..KEY_LENGTH |-> 2]

AuthVal == [j \in 1..(RECORD_SIZE - 1 - KEY_LENGTH) |-> 3]

AuthKey2 == [j \in 1..KEY_LENGTH |-> 4]

AuthVal2 == [j \in 1..(RECORD_SIZE - 1 - KEY_LENGTH) |-> 5]

\* A value one byte longer than a response payload can hold (Context::alloc
\* takes any val_len), and the one-byte key of the small requests.
BigVal == [j \in 1..(PayloadCapacity + 1) |-> 6]

SmallKey == <<7>>

OpGet(table_id, key) == [op |-> "get", table_id |-> table_id, key |-> key]

OpPut(table_id, key, val) ==
    [op |-> "put", table_id |-> table_id, key |-> key, val |-> val]

OpRespArgs == [op |-> "resp_args"]

OpRespLast == [op |-> "resp_last"]

\* slices: the Context calls of each slice; forever: after its last slice
\* the extension keeps computing (and yielding) without end.
ExtScript(args) ==
    LET c == IF args = <<>> THEN 0 ELSE args[1]
    IN  IF c = 9 THEN [slices |-> << <<OpRespArgs>> >>, forever |-> FALSE]
        ELSE IF c = 1 /\ Len(args) >= 8 + KEY_LENGTH
        THEN [slices |-> << <<OpGet(1, SubSeq(args, 9, 8 + KEY_LENGTH))>>,
                            <<OpRespLast>> >>,
              forever |-> FALSE]
        ELSE IF c = 10
        THEN [slices |-> << <<OpGet(1, FillKey(1))>>, <<OpRespLast>> >>,
              forever |-> FALSE]
        ELSE IF c = 11
        THEN [slices |-> << <<OpPut(1, AuthKey, AuthVal)>>,
                            <<OpGet(1, AuthKey), OpRespLast>> >>,
              forever |-> FALSE]
        ELSE IF c = 12
        THEN [slices |-> << <<OpGet(1, FillKey(1)), OpRespLast, OpRespLast,
                              OpRespLast, OpRespLast>> >>,
              forever |-> FALSE]
        ELSE IF c = 13
        THEN [slices |-> << <<OpPut(1, AuthKey, AuthVal), OpPut(1, AuthKey2, AuthVal2),
                              OpGet(1, AuthKey2), OpGet(1, AuthKey)>> >>,
              forever |-> TRUE]
        ELSE IF c = 14
        THEN [slices |-> << <<>>, <<OpGet(1, FillKey(1)), OpRespLast>> >>,
              forever |-> FALSE]
        ELSE IF c = 15
        THEN [slices |-> << <<OpGet(1, AuthKey)>>, <<OpRespLast>> >>,
              forever |-> FALSE]
        ELSE IF c = 16
        THEN [slices |-> << <<OpPut(1, AuthKey, BigVal)>> >>, forever |-> FALSE]
        ELSE IF c = 17
        THEN [slices |-> << <<OpGet(1, SmallKey), OpRespLast>> >>,
              forever |-> FALSE]
        ELSE IF c = 18
        THEN [slices |-> << <<OpPut(1, SmallKey, <<8>>), OpGet(1, SmallKey),
                              OpRespLast>> >>,
              forever |-> FALSE]
        ELSE [slices |-> << <<>> >>, forever |-> FALSE]

\* One Context call of the extension.  c: the context, the Tenant objects,
\* the extension's last read, the read/write-set, whether a call panicked,
\* and (history) whether the data of a resp() exceeded the payload's room.
\* A get that succeeds is appended to the read-set, a put that succeeds to
\* the write-set.  An extension whose allocation fails returns (stopped).
ext_call(o, c, fits) ==
    IF o.op = "get"
    THEN LET v == Context_get(c.db, c.objs, o.table_id, o.key)
         IN  [c EXCEPT !.last = v,
                       !.readset = IF v = {} THEN @
                                   ELSE Append(@, [key |-> o.key, value |-> The(v)])]
    ELSE IF o.op = "put"
    THEN LET wbuf == Context_alloc(c.db, c.objs, o.table_id, o.key, Len(o.val), fits)
             r == Context_put(c.db, c.objs, write_slice(The(wbuf), o.val))
         IN  IF wbuf = {} THEN [c EXCEPT !.stopped = TRUE]
             ELSE [c EXCEPT !.objs = r.objs,
                            !.writeset = IF r.ok
                                         THEN Append(@, [key |-> o.key, value |-> o.val])
                                         ELSE @]
    ELSE LET data == IF o.op = "resp_args" THEN Context_args(c.db)
                     ELSE IF c.last = {} THEN <<>> ELSE The(c.last)
             r == Context_resp(c.db, data)
             over == Len(c.db.response.payload) + Len(data) > PayloadCapacity
         IN  IF r = {} THEN [c EXCEPT !.unwound = TRUE, !.overflow = over]
             ELSE [c EXCEPT !.db = The(r), !.overflow = @ \/ over]

\* The calls of one slice, up to the first that panics or the return.
\* (c1 is bound through a singleton set: the call is evaluated once.)
RECURSIVE ext_slice(_, _, _)
ext_slice(ops, c, fits) ==
    IF ops = <<>> \/ c.unwound \/ c.stopped THEN c
    ELSE The({ext_slice(Tail(ops), c1, fits) :
                 c1 \in {ext_call(Head(ops), c, fits)}})

----------------------------------------------------------------------------
(* Container::new, and the tasks' run(), commit() and pushback()             *)

Container_new(req, db, ext) ==
    [kind |-> "Container", req |-> req, db |-> db, ext |-> ext,
     state |-> "INITIALIZED", time |-> 0, budget |-> CyclesBudget,
     script |-> ExtScript(Context_args(db)), pc |-> 1, last |-> {},
     readset |-> <<>>, writeset |-> <<>>, unwound |-> FALSE,
     overflow |-> FALSE]

\* Mutant of resume: the generator yields before it returns its packets.
resume_yield_first(gen) == "Yielded"

\* How the first resumption of the generator of get() or put() ends: the
\* closure returns its packets; the `yield 0` behind the return is never
\* reached.
resume(gen) == "Complete"

\* Native::run: the generator is resumed once.  When it returns its packets
\* the task is COMPLETED, when it yields the task is YIELDED.
Native_run(t, fits) ==
    LET done == IF t.gen = "get" THEN [res |-> get_gen(t), objs |-> tenantObjs]
                ELSE put_gen(t, fits)
    IN  IF resume(t.gen) = "Complete"
        THEN [task |-> [t EXCEPT !.state = "COMPLETED", !.res = done.res],
              objs |-> done.objs]
        ELSE [task |-> [t EXCEPT !.state = "YIELDED"], objs |-> tenantObjs]

\* Mutant of consumed: the cycles of a slice are not added to the task's.
consumed_not_counted(t, used) == t.time

\* The cycles a task has consumed after a slice of `used` cycles.
consumed(t, used) == t.time + used

\* Container::run on the Tenant objects `objs`: one slice of the extension,
\* `used` cycles long.  A panic
\* inside the slice is caught at its boundary: the task completes with
\* StatusInternalError.  A slice that is not the last leaves the task
\* YIELDED when it has overrun its budget, and otherwise YIELDED or
\* RUNNABLE (`again`).
Container_run(t, objs, fits, used, again) ==
    LET n == Len(t.script.slices)
        slice == IF t.pc <= n THEN t.script.slices[t.pc] ELSE <<>>
        time == consumed(t, used)
    IN  The({LET done == c.stopped \/ (~t.script.forever /\ t.pc >= n)
                 state == IF c.unwound \/ done THEN "COMPLETED"
                          ELSE IF time > t.budget THEN "YIELDED"
                          ELSE again
                 db == IF c.unwound
                       THEN [c.db EXCEPT
                                !.response = set_status(@, "StatusInternalError")]
                       ELSE c.db
             IN  [task |-> [t EXCEPT !.state = state, !.time = time, !.db = db,
                                     !.pc = IF t.pc <= n THEN t.pc + 1 ELSE t.pc,
                                     !.last = c.last, !.readset = c.readset,
                                     !.writeset = c.writeset,
                                     !.unwound = c.unwound,
                                     !.overflow = c.overflow],
                  objs |-> c.objs] :
             c \in {ext_slice(slice,
                              [db |-> t.db, objs |-> objs, last |-> t.last,
                               readset |-> t.readset, writeset |-> t.writeset,
                               unwound |-> FALSE, stopped |-> FALSE,
                               overflow |-> t.overflow],
                              fits)}})

\* Task::commit: the packets of a COMPLETED task.
Task_commit(t) == IF t.kind = "Container" THEN commit(t.db) ELSE <<t.req, t.res>>

(* The pushback protocol: the read-set and then the write-set, one record   *)
(* <tag, key, value> per entry, tag 1 for a read and 2 for a write.         *)

encode_record(tag, e) == <<tag>> \o e.key \o e.value

RECURSIVE encode_set(_, _)
encode_set(tag, set) ==
    IF set = <<>> THEN <<>>
    ELSE encode_record(tag, Head(set)) \o encode_set(tag, Tail(set))

\* Mutant of Container_pushback: the write-set is serialized before the
\* read-set.
Container_pushback_writes_first(t) ==
    <<t.req, [t.db.response EXCEPT
                 !.status = "StatusPushback",
                 !.payload = encode_set(2, t.writeset) \o encode_set(1, t.readset)]>>

\* Container::pushback: the packets, the response carrying the continuation.
Container_pushback(t) ==
    <<t.req, [t.db.response EXCEPT
                 !.status = "StatusPushback",
                 !.payload = encode_set(1, t.readset) \o encode_set(2, t.writeset)]>>

\* Mutant of invoke: the extension is looked up under any tenant it is
\* loaded for, not under the tenant that issued the request.
invoke_any_tenant(req, res0) ==
    LET tenant_id == req.tenant
        name_length == req.name_length
        args_length == req.args_length
        rpc_stamp == req.stamp
        res == push_header(res0, "InvokeResponse", rpc_stamp)
        name == from_utf8(split_at(req.payload, name_length)[1])
        tenant == get_tenant(tenant_id)
        ext == IF \E e \in extensions : e[2] = The(name) THEN {The(name)} ELSE {}
    IN  IF Len(req.payload) < name_length + args_length
        THEN Err(req, set_status(res, "StatusMalformedRequest"))
        ELSE IF name = {}
        THEN Panic(req, "ERROR: Failed to get ext name.")
        ELSE IF tenant # {} /\ ext # {}
        THEN Ok(Container_new(req, Context_new(req, name_length, args_length, res,
                                               The(tenant)), The(ext)))
        ELSE IF tenant # {}
        THEN Err(req, set_status(res, "StatusInvalidExtension"))
        ELSE Err(req, set_status(res, "StatusTenantDoesNotExist"))

(* Master::invoke *)

invoke(req, res0) ==
    LET tenant_id == req.tenant
        name_length == req.name_length
        args_length == req.args_length
        rpc_stamp == req.stamp
        res == push_header(res0, "InvokeResponse", rpc_stamp)
        name == from_utf8(split_at(req.payload, name_length)[1])
        tenant == get_tenant(tenant_id)
        ext == ext_get(tenant_id, The(name))
    IN  IF Len(req.payload) < name_length + args_length
        THEN Err(req, set_status(res, "StatusMalformedRequest"))
        ELSE IF name = {}
        THEN Panic(req, "ERROR: Failed to get ext name.")
        ELSE IF tenant # {} /\ ext # {}
        THEN Ok(Container_new(req, Context_new(req, name_length, args_length, res,
                                               The(tenant)), The(ext)))
        ELSE IF tenant # {}
        THEN Err(req, set_status(res, "StatusInvalidExtension"))
        ELSE Err(req, set_status(res, "StatusTenantDoesNotExist"))

(* Service for Master: dispatch *)

dispatch(op, req, res) ==
    IF op = "SandstormGetRpc" THEN get(req, res)
    ELSE IF op = "SandstormPutRpc" THEN put(req, res)
    ELSE IF op = "SandstormInvokeRpc" THEN invoke(req, res)
    ELSE Err(req, res)

----------------------------------------------------------------------------
(* The requests the clients send *)

Stamps == {98, 99}

TenantIds == {1, 2}

TableIds == {1, 2}

\* The administrator's calls: fill_test creates table 1 for either tenant,
\* load_test loads the extensions for tenant 1.
FillTables == {1}

LoadTenants == {1}

\* <<key_length, payload>>: a bare key, a key with a value (or trailing bytes),
\* a payload shorter than key_length, and the key of fill_test's first object.
KeyBodies ==
    {<<1, <<7>>>>, <<1, <<7, 5>>>>, <<1, <<7, 6>>>>, <<2, <<7>>>>,
     <<FillKeyLen, FillKey(1)>>}

\* <<name_length, args_length, payload>>: "get" with and without arguments,
\* a payload shorter than name + args, an unknown name, a name that is not UTF-8.
InvokeBodies ==
    {<<3, 0, NameGet>>, <<3, 1, NameGet \o <<9>>>>, <<3, 1, NameGet>>,
     <<1, 0, <<120>>>>, <<1, 0, <<255>>>>}

GetPutRequests ==
    {[opcode |-> op, tenant |-> t, stamp |-> s, table_id |-> tb,
      key_length |-> b[1], payload |-> b[2]] :
        op \in {"SandstormGetRpc", "SandstormPutRpc"}, t \in TenantIds,
        s \in Stamps, tb \in TableIds, b \in KeyBodies}

InvokeRequests ==
    {[opcode |-> "SandstormInvokeRpc", tenant |-> t, stamp |-> s,
      name_length |-> b[1], args_length |-> b[2], payload |-> b[3]] :
        t \in TenantIds, s \in Stamps, b \in InvokeBodies}

OtherRequests ==
    {[opcode |-> "InvalidOperation", tenant |-> t, stamp |-> s, payload |-> <<>>] :
        t \in TenantIds, s \in Stamps}

Requests == GetPutRequests \cup InvokeRequests \cup OtherRequests

\* One key of one table of one tenant: gets, and puts of two values.
KVRequests ==
    {r \in GetPutRequests :
        /\ r.tenant = 1 /\ r.table_id = 1 /\ r.stamp = 99
        /\ r.key_length = 1
        /\ (r.opcode = "SandstormGetRpc" => r.payload = <<7>>)
        /\ (r.opcode = "SandstormPutRpc" => Len(r.payload) = 2)}

----------------------------------------------------------------------------
(* History recorded beside each request: what was true when it was          *)
(* dispatched and when its task ran.  No action reads it.                   *)

IsGetPut(req) == req.opcode \in {"SandstormGetRpc", "SandstormPutRpc"}

IsInvoke(req) == req.opcode = "SandstormInvokeRpc"

\* The tenant registered under an id: insert_tenant overwrites, so it is the
\* Tenant object created last with that id.
LatestTenant(tenant_id) ==
    LET hs == {h \in 1..Len(tenantObjs) : tenantObjs[h].id = tenant_id}
    IN  IF hs = {} THEN {} ELSE {CHOOSE h \in hs : \A g \in hs : g <= h}

ReqKey(req) == SubSeq(req.payload, 1, req.key_length)

Short(req) ==
    \/ IsGetPut(req) /\ Len(req.payload) < req.key_length
    \/ IsInvoke(req) /\ Len(req.payload) < req.name_length + req.args_length

AckedValue(tenant, req) ==
    IF tenant = {} \/ ~IsGetPut(req) \/ Short(req) THEN {}
    ELSE MapGet(acked, <<The(tenant), req.table_id, ReqKey(req)>>)

SeenAtDispatch(req) ==
    [tenant |-> LatestTenant(req.tenant),
     authorized |-> /\ IsInvoke(req) /\ ~Short(req)
                    /\ <<req.tenant, SubSeq(req.payload, 1, req.name_length)>>
                           \in extensions,
     acked |-> AckedValue(LatestTenant(req.tenant), req)]

\* For the task of a get or put: the table and the value under the key in
\* the tenant the request was dispatched to, just before the task runs.
SeenAtRun(seen, req) ==
    LET hasTable == /\ seen.tenant # {} /\ IsGetPut(req)
                    /\ req.table_id \in DOMAIN tenantObjs[The(seen.tenant)].tables
        table == tenantObjs[The(seen.tenant)].tables[req.table_id]
    IN  [hasTable |-> hasTable,
         stored |-> IF hasTable /\ ReqKey(req) \in DOMAIN table
                    THEN {table[ReqKey(req)].value} ELSE {},
         acked |-> AckedValue(seen.tenant, req),
         objs |-> tenantObjs]

NotRun == [hasTable |-> FALSE, stored |-> {}, acked |-> {}, objs |-> <<>>]

\* What the scheduler saw of the task whose packets are in `out`.
RunOf(t, pushed) ==
    [kind |-> t.kind, state |-> t.state, time |-> t.time,
     budget |-> IF t.kind = "Container" THEN t.budget ELSE 0,
     pushed |-> pushed, task |-> t,
     unwound |-> t.kind = "Container" /\ t.unwound,
     overflow |-> t.kind = "Container" /\ t.overflow,
     readset |-> IF t.kind = "Container" THEN t.readset ELSE <<>>,
     writeset |-> IF t.kind = "Container" THEN t.writeset ELSE <<>>]

NoRun == [kind |-> "None", state |-> "None", time |-> 0, budget |-> 0,
          pushed |-> FALSE, task |-> [kind |-> "None"], unwound |-> FALSE, overflow |-> FALSE,
          readset |-> <<>>, writeset |-> <<>>]

NoOut == [full |-> FALSE]

NoPanic == [tag |-> "None"]

----------------------------------------------------------------------------
(* The client's task manager: the invocation kept beside each request, so   *)
(* that the extension can be run on the client when the server pushes it    *)
(* back.  The extension runs the same script against the read/write-set.    *)

\* TaskManager::new(master, req, tenant, name_length, id)
TaskManager_new(req, tenant, name_length, id) ==
    [id |-> id, tenant |-> tenant, name_length |-> name_length, req |-> req,
     state |-> "INITIALIZED",
     script |-> ExtScript(split_at(req, name_length)[2]),
     pc |-> 1, last |-> {}, readset |-> <<>>, writeset |-> <<>>,
     resp |-> <<>>]

\* TaskManager::create_generator: a fresh generator of the extension.
create_generator(m) ==
    [m EXCEPT !.state = "INITIALIZED", !.pc = 1, !.last = {}, !.resp = <<>>]

\* One record of record_len bytes: its tag, its key of key_len bytes, and
\* the rest as its value.
decode_record(rec, key_len) ==
    [tag |-> rec[1], key |-> SubSeq(rec, 2, 1 + key_len),
     value |-> SubSeq(rec, 2 + key_len, Len(rec))]

RECURSIVE decode_records(_, _, _)
decode_records(records, record_len, key_len) ==
    IF Len(records) < record_len THEN <<>>
    ELSE <<decode_record(SubSeq(records, 1, record_len), key_len)>>
         \o decode_records(SubSeq(records, record_len + 1, Len(records)),
                           record_len, key_len)

EntriesTagged(ds, tag) ==
    LET sel == SelectSeq(ds, LAMBDA d : d.tag = tag)
    IN  [i \in 1..Len(sel) |-> [key |-> sel[i].key, value |-> sel[i].value]]

\* TaskManager::update_rwset(records, record_len, key_len): the payload is
\* cut into records of record_len bytes; tag 1 goes to the read-set, tag 2
\* to the write-set.
update_rwset(m, records, record_len, key_len) ==
    LET ds == decode_records(records, record_len, key_len)
    IN  [m EXCEPT !.readset = @ \o EntriesTagged(ds, 1),
                  !.writeset = @ \o EntriesTagged(ds, 2)]

\* The local data service: the latest write of the key, else its latest read.
local_get(m, key) ==
    LET ws == {i \in 1..Len(m.writeset) : m.writeset[i].key = key}
        rs == {i \in 1..Len(m.readset) : m.readset[i].key = key}
    IN  IF ws # {} THEN {m.writeset[CHOOSE i \in ws : \A j \in ws : j <= i].value}
        ELSE IF rs # {} THEN {m.readset[CHOOSE i \in rs : \A j \in rs : j <= i].value}
        ELSE {}

\* One call of the extension on the client.  A get of a key that is not in
\* the local data service is sent to the server and blocks the task.
proxy_call(o, c) ==
    IF o.op = "get"
    THEN LET v == local_get(c.m, o.key)
         IN  IF v = {} THEN [c EXCEPT !.blocked = TRUE]
             ELSE [c EXCEPT !.m.last = v]
    ELSE IF o.op = "put"
    THEN [c EXCEPT !.m.writeset = Append(@, [key |-> o.key, value |-> o.val])]
    ELSE LET data == IF o.op = "resp_args"
                     THEN split_at(c.m.req, c.m.name_length)[2]
                     ELSE IF c.m.last = {} THEN <<>> ELSE The(c.m.last)
         IN  [c EXCEPT !.m.resp = @ \o data]

RECURSIVE proxy_slice(_, _)
proxy_slice(ops, c) ==
    IF ops = <<>> \/ c.blocked THEN c
    ELSE proxy_slice(Tail(ops), proxy_call(Head(ops), c))

\* TaskManager::execute_task: one slice of the extension.  WAITING when a
\* get blocked (the slice is run again on wake-up), COMPLETED after the last
\* slice, and otherwise YIELDED or RUNNABLE (`again`).
TaskManager_execute_task(m, again) ==
    LET n == Len(m.script.slices)
        slice == IF m.pc <= n THEN m.script.slices[m.pc] ELSE <<>>
        c == proxy_slice(slice, [m |-> m, blocked |-> FALSE])
        done == ~m.script.forever /\ m.pc >= n
    IN  IF c.blocked THEN [c.m EXCEPT !.state = "WAITING"]
        ELSE [c.m EXCEPT !.state = IF done THEN "COMPLETED" ELSE again,
                         !.pc = IF m.pc <= n THEN m.pc + 1 ELSE m.pc]

\* TaskManager::get_id
get_id(m) == m.id

----------------------------------------------------------------------------
(* The client: AuthRecvSend (client/auth.rs).  It issues invocations of the *)
(* extension "auth", keeps a TaskManager per outstanding request, and runs  *)
(* pushed-back extensions itself.  Latency samples are not modelled.        *)
(* A u64 counter that wrapped below zero is represented by a negative       *)
(* number; it compares above every bound.                                   *)

NameAuth == <<97, 117, 116, 104>>

\* Auth::abc: only the first four bytes of the key matter, the rest are zero.
WorkloadKey(k) == [j \in 1..KEY_LENGTH |-> IF j = 1 THEN k ELSE 0]

\* payload_auth: "auth", table id 1, the key, and the value (password),
\* whose first four bytes are the key's.
payload_auth(k) ==
    NameAuth \o <<1, 0, 0, 0, 0, 0, 0, 0>> \o WorkloadKey(k)
             \o [j \in 1..VAL_LENGTH |-> IF j = 1 THEN k ELSE 0]

\* AuthRecvSend::new (use_invoke: native is false)
AuthRecvSend_new(resps, reqs) ==
    [responses |-> resps, requests |-> reqs, recvd |-> 0, sent |-> 0,
     finished |-> FALSE, outstanding |-> 0, manager |-> <<>>, waiting |-> <<>>,
     rx |-> <<>>, phase |-> "send", clock |-> 0, polled |-> 0,
     panicked |-> FALSE, dropped |-> {}, done |-> {}]

\* u64 comparison and decrement
U64Less(a, b) == a >= 0 /\ a < b

add_request(cl, req, tenant, name_length, id) ==
    [cl EXCEPT !.manager = MapPut(@, id, TaskManager_new(req, tenant, name_length, id))]

MapRemove(m, k) == [x \in (DOMAIN m) \ {k} |-> m[x]]

remove_request(cl, id) == [cl EXCEPT !.manager = MapRemove(@, id)]

\* Mutant of send_loop: a request is issued while outstanding <= 32.
RECURSIVE send_loop_window_inclusive(_, _, _)
send_loop_window_inclusive(cl, tenant, k) ==
    IF U64Less(cl.outstanding, WINDOW + 1)
    THEN LET curr == cl.clock + 1
             p_get == payload_auth(k)
             cl1 == [add_request(cl, p_get, tenant, 4, curr) EXCEPT
                        !.clock = curr,
                        !.outstanding = @ + 1,
                        !.sent = @ + 1]
         IN  IF Len(cl1.waiting) >= WAITING_LIMIT THEN cl1
             ELSE send_loop_window_inclusive(cl1, tenant, k)
    ELSE cl

\* The loop of send(): one invocation per free slot of the window.
RECURSIVE send_loop(_, _, _)
send_loop(cl, tenant, k) ==
    IF U64Less(cl.outstanding, WINDOW)
    THEN LET curr == cl.clock + 1
             p_get == payload_auth(k)
             cl1 == [add_request(cl, p_get, tenant, 4, curr) EXCEPT
                        !.clock = curr,
                        !.outstanding = @ + 1,
                        !.sent = @ + 1]
         IN  IF Len(cl1.waiting) >= WAITING_LIMIT THEN cl1
             ELSE send_loop(cl1, tenant, k)
    ELSE cl

send(cl, tenant, k) ==
    IF cl.requests <= cl.sent THEN cl ELSE send_loop(cl, tenant, k)

\* parse_rpc_opcode
parse_rpc_opcode(packet) ==
    IF packet.hdr = "InvokeResponse" THEN "SandstormInvokeRpc"
    ELSE IF packet.hdr = "GetResponse" THEN "SandstormGetRpc"
    ELSE IF packet.hdr = "PutResponse" THEN "SandstormPutRpc"
    ELSE "InvalidOperation"

\* self.outstanding -= 1: below zero a build with overflow checks panics,
\* a build without them wraps.
decrement_outstanding(cl, checked) ==
    IF cl.outstanding = 0 /\ checked THEN [cl EXCEPT !.panicked = TRUE]
    ELSE [cl EXCEPT !.outstanding = @ - 1]

\* Mutant of recv_pushback: the task stays in the manager map.
recv_pushback_keep_in_map(cl, packet, checked) ==
    LET records == packet.payload
        timestamp == packet.stamp
        manager == MapGet(cl.manager, timestamp)
        restored == update_rwset(create_generator(The(manager)),
                                 records, RECORD_SIZE, 30)
        cl1 == IF manager # {}
               THEN [cl EXCEPT !.waiting = Append(@, restored)]
               ELSE cl
    IN  decrement_outstanding(cl1, checked)

\* Mutant of recv_pushback: the records are cut with a key of 29 bytes.
recv_pushback_short_key(cl, packet, checked) ==
    LET records == packet.payload
        timestamp == packet.stamp
        manager == MapGet(cl.manager, timestamp)
        restored == update_rwset(create_generator(The(manager)),
                                 records, RECORD_SIZE, 29)
        cl1 == IF manager # {}
               THEN [cl EXCEPT !.manager = MapRemove(@, timestamp),
                               !.waiting = Append(@, restored)]
               ELSE cl
    IN  decrement_outstanding(cl1, checked)

\* recv(), an invoke response with StatusPushback: the task recorded under
\* the stamp is taken out of the manager map, gets a fresh generator and the
\* read/write-set of the payload, and is pushed on the run-queue.
recv_pushback(cl, packet, checked) ==
    LET records == packet.payload
        timestamp == packet.stamp
        manager == MapGet(cl.manager, timestamp)
        restored == update_rwset(create_generator(The(manager)),
                                 records, RECORD_SIZE, 30)
        cl1 == IF manager # {}
               THEN [cl EXCEPT !.manager = MapRemove(@, timestamp),
                               !.waiting = Append(@, restored)]
               ELSE cl
    IN  decrement_outstanding(cl1, checked)

\* The body of recv()'s loop for one packet (invoke mode).
\* Mutant of recv_packet: a get response puts the waiting task on the
\* run-queue and leaves it in the manager map as well.
recv_packet_get_keeps_manager(cl, packet, checked) ==
    LET op == parse_rpc_opcode(packet)
        stamp == packet.stamp
    IN  IF op = "SandstormInvokeRpc"
        THEN IF packet.status = "StatusOk"
             THEN remove_request(
                      decrement_outstanding([cl EXCEPT !.recvd = @ + 1], checked),
                      stamp)
             ELSE IF packet.status = "StatusPushback"
             THEN recv_pushback(cl, packet, checked)
             ELSE cl
        ELSE IF op = "SandstormGetRpc"
        THEN IF stamp \in DOMAIN cl.manager
             THEN [cl EXCEPT !.waiting = Append(@, cl.manager[stamp])]
             ELSE cl
        ELSE cl

recv_packet(cl, packet, checked) ==
    LET op == parse_rpc_opcode(packet)
        stamp == packet.stamp
    IN  IF op = "SandstormInvokeRpc"
        THEN IF packet.status = "StatusOk"
             THEN remove_request(
                      decrement_outstanding([cl EXCEPT !.recvd = @ + 1], checked),
                      stamp)
             ELSE IF packet.status = "StatusPushback"
             THEN recv_pushback(cl, packet, checked)
             ELSE cl
        ELSE IF op = "SandstormGetRpc"
        THEN IF stamp \in DOMAIN cl.manager
             THEN [cl EXCEPT !.manager = MapRemove(@, stamp),
                             !.waiting = Append(@, cl.manager[stamp])]
             ELSE cl
        ELSE cl

\* Mutant of execute_task: a COMPLETED task is put back on the run-queue.
execute_task_requeue_completed(cl, again) ==
    IF cl.finished /\ Len(cl.waiting) = 0 THEN cl
    ELSE LET manager == IF cl.waiting = <<>> THEN {} ELSE {Head(cl.waiting)}
             m == TaskManager_execute_task(The(manager), again)
             cl1 == IF manager = {} THEN cl
                    ELSE IF m.state = "YIELDED"
                    THEN [cl EXCEPT !.waiting = Append(Tail(@), m)]
                    ELSE IF m.state = "WAITING"
                    THEN [cl EXCEPT !.waiting = Tail(@),
                                    !.manager = MapPut(@, get_id(m), m)]
                    ELSE IF m.state = "COMPLETED"
                    THEN [cl EXCEPT !.waiting = Append(Tail(@), m),
                                    !.recvd = @ + 1, !.done = @ \cup {m}]
                    ELSE [cl EXCEPT !.waiting = Tail(@),
                                    !.dropped = @ \cup {m}]
         IN  IF cl1.responses <= cl1.recvd /\ Len(cl1.waiting) = 0
             THEN [cl1 EXCEPT !.finished = TRUE]
             ELSE cl1

\* Mutant of execute_task: a YIELDED task is put back at the head.
execute_task_push_front(cl, again) ==
    IF cl.finished /\ Len(cl.waiting) = 0 THEN cl
    ELSE LET manager == IF cl.waiting = <<>> THEN {} ELSE {Head(cl.waiting)}
             m == TaskManager_execute_task(The(manager), again)
             cl1 == IF manager = {} THEN cl
                    ELSE IF m.state = "YIELDED"
                    THEN [cl EXCEPT !.waiting = <<m>> \o Tail(@)]
                    ELSE IF m.state = "WAITING"
                    THEN [cl EXCEPT !.waiting = Tail(@),
                                    !.manager = MapPut(@, get_id(m), m)]
                    ELSE IF m.state = "COMPLETED"
                    THEN [cl EXCEPT !.waiting = Tail(@), !.recvd = @ + 1,
                                    !.done = @ \cup {m}]
                    ELSE [cl EXCEPT !.waiting = Tail(@),
                                    !.dropped = @ \cup {m}]
         IN  IF cl1.responses <= cl1.recvd /\ Len(cl1.waiting) = 0
             THEN [cl1 EXCEPT !.finished = TRUE]
             ELSE cl1

\* execute_task(): the task at the head of the run-queue runs one slice.
\* A task reported in any other state than YIELDED, WAITING or COMPLETED
\* is dropped.
execute_task(cl, again) ==
    IF cl.finished /\ Len(cl.waiting) = 0 THEN cl
    ELSE LET manager == IF cl.waiting = <<>> THEN {} ELSE {Head(cl.waiting)}
             m == TaskManager_execute_task(The(manager), again)
             cl1 == IF manager = {} THEN cl
                    ELSE IF m.state = "YIELDED"
                    THEN [cl EXCEPT !.waiting = Append(Tail(@), m)]
                    ELSE IF m.state = "WAITING"
                    THEN [cl EXCEPT !.waiting = Tail(@),
                                    !.manager = MapPut(@, get_id(m), m)]
                    ELSE IF m.state = "COMPLETED"
                    THEN [cl EXCEPT !.waiting = Tail(@), !.recvd = @ + 1,
                                    !.done = @ \cup {m}]
                    ELSE [cl EXCEPT !.waiting = Tail(@),
                                    !.dropped = @ \cup {m}]
         IN  IF cl1.responses <= cl1.recvd /\ Len(cl1.waiting) = 0
             THEN [cl1 EXCEPT !.finished = TRUE]
             ELSE cl1

----------------------------------------------------------------------------
(* The YCSB benchmark (ycsb.rs): one instance shared by the threads that    *)
(* call abc(), and stopped by stop().                                       *)

YcsbThreads == {1, 2}

\* Ycsb::new: done is false; no thread has called abc().  (ops and late are
\* history: the steps of the thread's loop, and whether stop() had been
\* called when the thread called abc().)
Ycsb_new ==
    [done |-> FALSE,
     th |-> [t \in YcsbThreads |->
                [pc |-> "idle", n_gets |-> 0, n_puts |-> 0, ops |-> 0,
                 late |-> FALSE]]]

MaxI32 == 2147483647

\* A u32 is kept as its 32-bit pattern: values from 2^31 on are negative.
\* a + k for 0 < k < 2^31, wrapped to 32 bits.
u32_add(a, k) ==
    IF a >= 0 /\ a > MaxI32 - k
    THEN (a - MaxI32 - 1) + (k - MaxI32 - 1)
    ELSE a + k

\* The u32 addition a + k passes 2^32 - 1.
u32_overflows(a, k) == a < 0 /\ a + k >= 0

----------------------------------------------------------------------------
(* The state after Master::new() and AuthRecvSend::new() *)

Init ==
    /\ tenants = [b \in 0..(TENANT_BUCKETS - 1) |-> <<>>]
    /\ tenantObjs = <<>>
    /\ extensions = {}
    /\ tasks = <<>>
    /\ out = NoOut
    /\ panicked = NoPanic
    /\ acked = <<>>
    /\ client = AuthRecvSend_new(Resps, NumReqs)
    /\ filling = <<>>
    /\ ycsb = Ycsb_new

Running == panicked = NoPanic

\* The u32 4294967295, written as its 32-bit pattern.
U32_MAX == -1

\* The end `num + 1` of fill_test's loop `for i in 1..(num + 1)` in a build
\* without overflow checks: u32 addition wraps.
range_end(num) == IF num = U32_MAX THEN 0 ELSE num + 1

\* The passes of `for i in 1..end`: none when end is 0 or 1.
range_len(end) == IF end = 0 THEN 0 ELSE end - 1

(* Master::fill_test(tenant_id, table_id, num): builds the tenant and its   *)
(* table, then inserts it.  (A failed allocation aborts start-up.)  For     *)
(* num = u32::MAX the addition num + 1 overflows: a build with overflow     *)
(* checks panics there, a build without them wraps to an empty range.       *)
FillTestUpTo(cap, tenant_id, table_id, num) ==
    /\ Running
    /\ Len(tenantObjs) < cap
    /\ \E checked \in BOOLEAN :
          IF num = U32_MAX /\ checked
          THEN /\ panicked' = Panic([opcode |-> "fill_test", tenant |-> tenant_id],
                                    "attempt to add with overflow")
               /\ UNCHANGED <<tenants, tenantObjs>>
          ELSE LET tenant == create_table(Tenant_new(tenant_id), table_id)
                   table == fill_table(The(get_table(tenant, table_id)), tenant_id,
                                       table_id, range_len(range_end(num)))
                   \* (num: history of the call; no operation reads it)
                   filled == [id |-> tenant.id,
                              tables |-> [tenant.tables EXCEPT ![table_id] = table],
                              num |-> num]
               IN  /\ tenantObjs' = Append(tenantObjs, filled)
                   /\ tenants' = insert_tenant(tenant_id, Len(tenantObjs) + 1)
                   /\ panicked' = panicked
    /\ UNCHANGED <<extensions, tasks, out, acked, client, filling, ycsb>>

FillTest(tenant_id, table_id, num) ==
    FillTestUpTo(MaxTenantObjs, tenant_id, table_id, num)

(* fill_test, statement by statement, for runs in which other threads of   *)
(* the server dispatch requests while it fills its table.  The tenant is a  *)
(* local of the call until insert_tenant takes it.                          *)

\* Up to the loop: the tenant, its table, and the range 1..(num + 1).
FillBegin(cap, tenant_id, table_id, num) ==
    /\ Running
    /\ Len(tenantObjs) + Len(filling) < cap
    /\ \E checked \in BOOLEAN :
          IF num = U32_MAX /\ checked
          THEN /\ panicked' = Panic([opcode |-> "fill_test", tenant |-> tenant_id],
                                    "attempt to add with overflow")
               /\ filling' = filling
          ELSE LET tenant == create_table(Tenant_new(tenant_id), table_id)
               IN  /\ filling' = Append(filling,
                                        [tenant |-> [id |-> tenant.id,
                                                     tables |-> tenant.tables,
                                                     num |-> num],
                                         table_id |-> table_id, i |-> 1,
                                         end |-> range_end(num)])
                   /\ panicked' = panicked
    /\ UNCHANGED <<tenants, tenantObjs, extensions, tasks, out, acked, client, ycsb>>

\* One pass of the loop: object i is allocated and put into the table.
FillPut(f) ==
    /\ Running
    /\ f \in 1..Len(filling)
    /\ filling[f].i < filling[f].end
    /\ LET call == filling[f]
           obj == The(object(call.tenant.id, call.table_id, FillKey(call.i),
                             FillVal(call.i), TRUE))
       IN  filling' = [filling EXCEPT
                          ![f].tenant.tables[call.table_id] =
                              table_put(@, obj[1], obj[2]),
                          ![f].i = @ + 1]
    /\ UNCHANGED <<tenants, tenantObjs, extensions, tasks, out, panicked, acked, client, ycsb>>

\* Mutant of FillInsert: the tenant is inserted before the loop has ended.
FillInsert_before_loop_end(f) ==
    /\ Running
    /\ f \in 1..Len(filling)
    /\ tenantObjs' = Append(tenantObjs, filling[f].tenant)
    /\ tenants' = insert_tenant(filling[f].tenant.id, Len(tenantObjs) + 1)
    /\ filling' = [k \in 1..(Len(filling) - 1) |->
                      IF k < f THEN filling[k] ELSE filling[k + 1]]
    /\ UNCHANGED <<extensions, tasks, out, panicked, acked, client, ycsb>>

\* After the loop: insert_tenant(tenant), and the call returns.
FillInsert(f) ==
    /\ Running
    /\ f \in 1..Len(filling)
    /\ ~(filling[f].i < filling[f].end)
    /\ tenantObjs' = Append(tenantObjs, filling[f].tenant)
    /\ tenants' = insert_tenant(filling[f].tenant.id, Len(tenantObjs) + 1)
    /\ filling' = [k \in 1..(Len(filling) - 1) |->
                      IF k < f THEN filling[k] ELSE filling[k + 1]]
    /\ UNCHANGED <<extensions, tasks, out, panicked, acked, client, ycsb>>

(* Master::load_test(tenant): loads get, put and tao for the tenant.        *)
(* (A failed load aborts start-up.)                                         *)
LoadTest(tenant_id) ==
    /\ Running
    /\ extensions' = ext_load(ext_load(ext_load(extensions, tenant_id, NameGet),
                                       tenant_id, NamePut), tenant_id, NameTao)
    /\ extensions' # extensions
    /\ UNCHANGED <<tenants, tenantObjs, tasks, out, panicked, acked, client, filling, ycsb>>

\* The identity of a task (its Box): the least number no queued task bears.
FreeId ==
    CHOOSE k \in 1..(Len(tasks) + 1) :
        /\ \A i \in 1..Len(tasks) : tasks[i].id # k
        /\ \A j \in 1..(k - 1) : \E i \in 1..Len(tasks) : tasks[i].id = j

(* Receive: one request is handed to Master::dispatch with a pre-allocated  *)
(* response.  A task is enqueued; an error pair goes to transmit.           *)
Receive(req, cap) ==
    /\ Running
    /\ out = NoOut
    /\ Len(tasks) < cap
    /\ LET d == dispatch(req.opcode, req, UdpResponse)
           seen == SeenAtDispatch(req)
       IN  /\ tasks' = IF d.tag = "Ok"
                       THEN Append(tasks, [task |-> d.task, seen |-> seen,
                                           id |-> FreeId])
                       ELSE tasks
           /\ out' = IF d.tag = "Err"
                     THEN [full |-> TRUE, from |-> "dispatch", req |-> d.req,
                           res |-> d.res, seen |-> seen, ran |-> NotRun,
                           run |-> NoRun, id |-> 0]
                     ELSE out
           /\ panicked' = IF d.tag = "Panic" THEN d ELSE panicked
    /\ UNCHANGED <<tenants, tenantObjs, extensions, acked, client, filling, ycsb>>

\* Mutant of pushback_due: every task that yields is pushed back.
pushback_due_any_yield(t) == t.kind = "Container" /\ t.state = "YIELDED"

\* The execute phase pushes a task back when its run() returned YIELDED and
\* its cycles consumed exceed its budget.
pushback_due(t) ==
    t.kind = "Container" /\ t.state = "YIELDED" /\ t.time > t.budget

(* Execute: the task at the head of the queue runs one slice.  A COMPLETED  *)
(* task is committed and its packets go to transmit; a YIELDED task that    *)
(* has overrun its budget is pushed back and discarded; any other task is   *)
(* enqueued again at the tail.  (No task waits on the server.)              *)
Execute(fits, used, again) ==
    /\ Running
    /\ out = NoOut
    /\ tasks # <<>>
    /\ LET e == Head(tasks)
           t == e.task
           ran == SeenAtRun(e.seen, t.req)
       IN  \E r \in {IF t.kind = "Container"
                      THEN Container_run(t, tenantObjs, fits, used, again)
                      ELSE Native_run(t, fits)} :
             /\ tenantObjs' = r.objs
             /\ IF r.task.state = "COMPLETED"
                THEN /\ out' = [full |-> TRUE, from |-> "task", req |-> t.req,
                                res |-> Task_commit(r.task)[2], seen |-> e.seen,
                                ran |-> ran, run |-> RunOf(r.task, FALSE),
                                id |-> e.id]
                     /\ tasks' = Tail(tasks)
                ELSE IF pushback_due(r.task)
                THEN /\ out' = [full |-> TRUE, from |-> "task", req |-> t.req,
                                res |-> Container_pushback(r.task)[2],
                                seen |-> e.seen, ran |-> ran,
                                run |-> RunOf(r.task, TRUE), id |-> e.id]
                     /\ tasks' = Tail(tasks)
                ELSE /\ out' = out
                     /\ tasks' = Append(Tail(tasks), [e EXCEPT !.task = r.task])
             /\ acked' = IF t.kind = "Native" /\ t.gen = "put"
                            /\ r.task.res.status = "StatusOk"
                         THEN MapPut(acked, <<The(t.tenant), t.table_id, ReqKey(t.req)>>,
                                     SubSeq(t.req.payload, t.key_length + 1,
                                            Len(t.req.payload)))
                         ELSE acked
    /\ UNCHANGED <<tenants, extensions, panicked, client, filling, ycsb>>

(* Transmit: the pair is sent and leaves the server. *)
Transmit ==
    /\ Running
    /\ out # NoOut
    /\ out' = NoOut
    /\ UNCHANGED <<tenants, tenantObjs, extensions, tasks, panicked, acked, client, filling, ycsb>>

(* The client's execute(): send(), recv(), execute_task(), in that order,   *)
(* for ever.  recv() is cut at each packet of the batch it polled.          *)

server == <<tenants, tenantObjs, extensions, tasks, out, panicked, acked, filling, ycsb>>

ClientRunning == ~client.panicked

Send(tenant, k) ==
    /\ ClientRunning
    /\ client.phase = "send"
    /\ client' = [send(client, tenant, k) EXCEPT !.phase = "recv"]
    /\ UNCHANGED server

\* recv() up to its loop: it returns when finished, else polls the queue.
RecvPoll(packets) ==
    /\ ClientRunning
    /\ client.phase = "recv"
    /\ client.polled + Len(packets) <= MaxDelivered
    /\ client.finished => packets = <<>>
    /\ client' = IF client.finished
                  THEN [client EXCEPT !.phase = "execute_task"]
                  ELSE [client EXCEPT !.rx = packets,
                                      !.polled = @ + Len(packets),
                                      !.phase = "recv_loop"]
    /\ UNCHANGED server

\* packets.pop() and the body of the loop
RecvPacket(checked) ==
    /\ ClientRunning
    /\ client.phase = "recv_loop"
    /\ client.rx # <<>>
    /\ client' = [recv_packet(client, client.rx[Len(client.rx)], checked) EXCEPT
                      !.rx = SubSeq(client.rx, 1, Len(client.rx) - 1)]
    /\ UNCHANGED server

\* recv() after its loop
RecvEnd ==
    /\ ClientRunning
    /\ client.phase = "recv_loop"
    /\ client.rx = <<>>
    /\ client' = [client EXCEPT
                      !.finished = @ \/ client.responses <= client.recvd,
                      !.phase = "execute_task"]
    /\ UNCHANGED server

ExecuteTask(again) ==
    /\ ClientRunning
    /\ client.phase = "execute_task"
    /\ client' = [execute_task(client, again) EXCEPT !.phase = "send"]
    /\ UNCHANGED server

\* What run() reports for a slice that is not the last and is within budget.
YieldStates == {"YIELDED", "RUNNABLE"}

Next ==
    \/ \E t \in TenantIds, tb \in FillTables, n \in 0..MaxNum : FillTest(t, tb, n)
    \/ \E t \in LoadTenants : LoadTest(t)
    \/ \E r \in Requests : Receive(r, MaxTasks)
    \/ \E fits \in BOOLEAN, used \in 1..MaxSliceCycles, again \in YieldStates :
          Execute(fits, used, again)
    \/ Transmit

Spec == Init /\ [][Next]_vars

NextKV ==
    \/ \E n \in 0..MaxNum : FillTest(1, 1, n)
    \/ \E r \in KVRequests : Receive(r, MaxKVTasks)
    \/ \E fits \in BOOLEAN, used \in 1..MaxSliceCycles, again \in YieldStates :
          Execute(fits, used, again)
    \/ Transmit

SpecKV == Init /\ [][NextKV]_vars

(* The server filled by fill_test and loaded by load_test for tenant 1,     *)
(* receiving invocations of the extension "get" with each script.           *)
ScriptArgs == {<<10>>, <<11>>, <<12>>, <<13>>, <<14>>, <<15>>}

SchedRequests ==
    {[opcode |-> "SandstormInvokeRpc", tenant |-> 1, stamp |-> 99,
      name_length |-> 3, args_length |-> Len(a), payload |-> NameGet \o a] :
        a \in ScriptArgs}

NextSched ==
    \/ \E n \in 1..MaxNum : FillTest(1, 1, n)
    \/ LoadTest(1)
    \/ \E r \in SchedRequests : Receive(r, MaxSchedTasks)
    \/ \E fits \in BOOLEAN, used \in 1..MaxSliceCycles, again \in YieldStates :
          Execute(fits, used, again)
    \/ Transmit

SpecSched == Init /\ [][NextSched]_vars

(* The scheduler's loop comes to its execute phase and to its transmit      *)
(* phase again and again, whatever the receive phase brings in between.     *)
SpecSchedLive ==
    /\ SpecSched
    /\ SF_vars(\E fits \in BOOLEAN, used \in 1..MaxSliceCycles, again \in YieldStates :
                  Execute(fits, used, again))
    /\ WF_vars(Transmit)

(* The registry: fill_test for tenants whose ids fall in the same bucket    *)
(* (1, 33 and 257 have the same low 5 bits of the low byte) and in another  *)
(* (2), again and again for the same id.                                    *)
RegTenants == {1, 2, 33, 257}

NextReg == \E t \in RegTenants, n \in 0..MaxNum : FillTestUpTo(MaxRegObjs, t, 1, n)

SpecReg == Init /\ [][NextReg]_vars

(* fill_test step by step beside the dispatch of gets for the keys it     *)
(* puts, for one tenant id that is filled again and again.                  *)
MaxFillNum == 2        \* largest `num` of a fill_test that runs step by step

MaxFillObjs == 2       \* Tenant objects the step-by-step fill_test creates

MaxFillTasks == 1      \* tasks in the run-queue beside a fill_test

StepNums == (0..MaxFillNum) \cup {U32_MAX}

StepRequests ==
    {[opcode |-> "SandstormGetRpc", tenant |-> 1, stamp |-> 99, table_id |-> 1,
      key_length |-> FillKeyLen, payload |-> FillKey(i)] : i \in 1..MaxFillNum}

NextSteps ==
    \/ \E n \in StepNums : FillBegin(MaxFillObjs, 1, 1, n)
    \/ \E f \in 1..MaxFillObjs : FillPut(f)
    \/ \E f \in 1..MaxFillObjs : FillInsert(f)
    \/ \E r \in StepRequests : Receive(r, MaxFillTasks)
    \/ Execute(TRUE, 1, "YIELDED")
    \/ Transmit

SpecSteps == Init /\ [][NextSteps]_vars

(* fill_test alone: two tenant ids, two table ids, and every num up to     *)
(* MaxNum and the largest u32.                                              *)
FillNums == (0..MaxNum) \cup {U32_MAX}

NextFill ==
    \E t \in TenantIds, tb \in TableIds, n \in FillNums :
        FillTestUpTo(MaxRegObjs, t, tb, n)

SpecFill == Init /\ [][NextFill]_vars

(* Two tenants, each filled by fill_test and loaded by load_test: native    *)
(* gets and puts of one small key (tenant 1 puts 5, tenant 2 puts 6), a     *)
(* native get of the 30-byte key, and invocations of the scripts that read  *)
(* and write the same keys through the Context.                             *)
DbTenants == {1, 2}

DbScriptArgs == {<<16>>, <<17>>, <<18>>}

DbRequests ==
    {[opcode |-> "SandstormInvokeRpc", tenant |-> t, stamp |-> 99,
      name_length |-> 3, args_length |-> Len(a), payload |-> NameGet \o a] :
        t \in DbTenants, a \in DbScriptArgs}
    \cup
    {[opcode |-> "SandstormGetRpc", tenant |-> t, stamp |-> 99, table_id |-> 1,
      key_length |-> Len(k), payload |-> k] :
        t \in DbTenants, k \in {SmallKey, AuthKey}}
    \cup
    {[opcode |-> "SandstormPutRpc", tenant |-> t, stamp |-> 99, table_id |-> 1,
      key_length |-> 1, payload |-> SmallKey \o <<4 + t>>] : t \in DbTenants}

NextDb ==
    \/ \E t \in DbTenants : FillTest(t, 1, 1)
    \/ \E t \in DbTenants : LoadTest(t)
    \/ \E r \in DbRequests : Receive(r, MaxDbTasks)
    \/ \E fits \in BOOLEAN, used \in 1..MaxSliceCycles, again \in YieldStates :
          Execute(fits, used, again)
    \/ Transmit

SpecDb == Init /\ [][NextDb]_vars

(* The client against a network that delivers any responses: to requests   *)
(* it issued (stamps 1 and 2) and to none (stamp 0).                        *)
ClientStamps == {0, 1, 2}

ReadRecord == encode_record(1, [key |-> WorkloadKey(1), value |-> AuthVal])

WriteRecord == encode_record(2, [key |-> AuthKey, value |-> AuthVal])

PushbackPayloads == {<<>>, ReadRecord, ReadRecord \o WriteRecord}

ClientResponses ==
    {[hdr |-> "InvokeResponse", status |-> st, stamp |-> s, payload |-> <<>>] :
        st \in {"StatusOk", "StatusInvalidExtension"}, s \in ClientStamps}
    \cup {[hdr |-> "InvokeResponse", status |-> "StatusPushback", stamp |-> s,
           payload |-> p] : s \in ClientStamps, p \in PushbackPayloads}
    \cup {[hdr |-> "GetResponse", status |-> "StatusOk", stamp |-> s,
           value_length |-> Len(AuthVal), payload |-> AuthVal] : s \in ClientStamps}
    \cup {[hdr |-> "PutResponse", status |-> "StatusOk", stamp |-> 1,
           payload |-> <<>>], UdpResponse}

Batches ==
    UNION {[1..n -> ClientResponses] : n \in 0..MaxBatch}

NextClient ==
    \/ Send(1, 1)
    \/ \E packets \in Batches : RecvPoll(packets)
    \/ \E checked \in BOOLEAN : RecvPacket(checked)
    \/ RecvEnd
    \/ \E again \in YieldStates : ExecuteTask(again)

SpecClient == Init /\ [][NextClient]_vars

(* The client configured for more requests than its window holds, so that  *)
(* send() fills the window again after responses have freed slots.          *)
ManyReqs == 34         \* requests of the client whose window is filled again

InitWindow ==
    /\ tenants = [b \in 0..(TENANT_BUCKETS - 1) |-> <<>>]
    /\ tenantObjs = <<>>
    /\ extensions = {}
    /\ tasks = <<>>
    /\ out = NoOut
    /\ panicked = NoPanic
    /\ acked = <<>>
    /\ client = AuthRecvSend_new(ManyReqs + Resps, ManyReqs)
    /\ filling = <<>>
    /\ ycsb = Ycsb_new

SpecWindow == InitWindow /\ [][NextClient]_vars

(* The threads of the YCSB benchmark.  A step of the loop's body stands for *)
(* one pass or for YcsbBurst passes in a row, so that the counters, which   *)
(* are u32, reach their width.                                              *)
MaxYcsbOps == 5        \* steps of the loop one thread takes

YcsbBurst == 1073741824    \* passes of the loop taken in one step (2^30)

everything_else ==
    <<tenants, tenantObjs, extensions, tasks, out, panicked, acked, client, filling>>

\* abc() up to its loop: the buffers, the generators and the counters.
Abc(t) ==
    /\ ycsb.th[t].pc = "idle"
    /\ ycsb' = [ycsb EXCEPT !.th[t].pc = "loop", !.th[t].late = ycsb.done]
    /\ UNCHANGED everything_else

\* `while !self.done.load(Ordering::Relaxed)`: the loop goes on, or abc()
\* returns its duration and counts.
YcsbLoad(t) ==
    /\ ycsb.th[t].pc = "loop"
    /\ ycsb.done \/ ycsb.th[t].ops < MaxYcsbOps
    /\ ycsb' = [ycsb EXCEPT !.th[t].pc = IF ycsb.done THEN "returned" ELSE "body"]
    /\ UNCHANGED everything_else

\* The body of the loop: one get or put is issued, then counted.  The
\* addition panics on overflow in a build with overflow checks, and wraps
\* in a build without.
YcsbBody(t, is_get, k) ==
    /\ ycsb.th[t].pc = "body"
    /\ \E checked \in BOOLEAN :
          LET n == IF is_get THEN ycsb.th[t].n_gets ELSE ycsb.th[t].n_puts
              issued == [ycsb EXCEPT !.th[t].ops = @ + 1]
          IN  ycsb' = IF u32_overflows(n, k) /\ checked
                      THEN [issued EXCEPT !.th[t].pc = "panicked"]
                      ELSE IF is_get
                      THEN [issued EXCEPT !.th[t].pc = "loop",
                                          !.th[t].n_gets = u32_add(n, k)]
                      ELSE [issued EXCEPT !.th[t].pc = "loop",
                                          !.th[t].n_puts = u32_add(n, k)]
    /\ UNCHANGED everything_else

\* stop(): `self.done.store(true, Ordering::Relaxed)`
YcsbStop ==
    /\ ycsb' = [ycsb EXCEPT !.done = TRUE]
    /\ UNCHANGED everything_else

NextYcsb ==
    \/ \E t \in YcsbThreads : Abc(t)
    \/ \E t \in YcsbThreads : YcsbLoad(t)
    \/ \E t \in YcsbThreads, is_get \in BOOLEAN, k \in {1, YcsbBurst} :
          YcsbBody(t, is_get, k)
    \/ YcsbStop

SpecYcsb == Init /\ [][NextYcsb]_vars

\* Every thread is scheduled again and again, and the store to `done`
\* becomes visible to its loads.
SpecYcsbLive ==
    /\ SpecYcsb
    /\ \A t \in YcsbThreads :
          /\ WF_vars(YcsbLoad(t))
          /\ WF_vars(\E is_get \in BOOLEAN, k \in {1, YcsbBurst} :
                        YcsbBody(t, is_get, k))

\* The same threads in runs too short for a counter to reach its width.
NextYcsbShort ==
    \/ \E t \in YcsbThreads : Abc(t)
    \/ \E t \in YcsbThreads : YcsbLoad(t)
    \/ \E t \in YcsbThreads, is_get \in BOOLEAN : YcsbBody(t, is_get, 1)
    \/ YcsbStop

SpecYcsbShort ==
    /\ Init /\ [][NextYcsbShort]_vars
    /\ \A t \in YcsbThreads :
          /\ WF_vars(YcsbLoad(t))
          /\ WF_vars(\E is_get \in BOOLEAN : YcsbBody(t, is_get, 1))

(* The server's scheduler and the client's loop side by side.  They share   *)
(* no state, so each is explored from the other's initial state.            *)
ServerIdle == tenantObjs = <<>> /\ extensions = {} /\ tasks = <<>> /\ out = NoOut

ClientIdle == client = AuthRecvSend_new(Resps, NumReqs)

NextTasks ==
    \/ ClientIdle /\ NextSched
    \/ ServerIdle /\ NextClient

SpecTasks == Init /\ [][NextTasks]_vars

----------------------------------------------------------------------------
(* Shorthands for the claims *)

IsGet(req) == req.opcode = "SandstormGetRpc"

IsPut(req) == req.opcode = "SandstormPutRpc"

\* The pair in `out` was returned by a task that ran / by dispatch as an error.
FromTask == out.full /\ out.from = "task"

FromDispatch == out.full /\ out.from = "dispatch"

HasStatus(res, status) == res.hdr # "Udp" /\ res.status = status

ReqName(req) == SubSeq(req.payload, 1, req.name_length)

----------------------------------------------------------------------------
(* C1: a get that completes with StatusOk returns the value written by the  *)
(* most recent put on that key that returned StatusOk before the get was    *)
(* dispatched.                                                              *)
(* As stated this fails: a put dispatched before the get but run after the  *)
(* get's dispatch is seen by the get.                                       *)
C1_GetReturnsPutAckedBeforeDispatch ==
    (FromTask /\ IsGet(out.req) /\ HasStatus(out.res, "StatusOk")
        /\ out.seen.acked # {})
    => out.res.payload = The(out.seen.acked)

(* C1, amended: a get that completes with StatusOk returns the value        *)
(* written by the most recent put on that key that returned StatusOk before *)
(* the get's task ran (not: before the get was dispatched).                 *)
C1_GetReturnsPutAckedBeforeRun ==
    (FromTask /\ IsGet(out.req) /\ HasStatus(out.res, "StatusOk")
        /\ out.ran.acked # {})
    => /\ out.res.payload = The(out.ran.acked)
       /\ out.res.value_length = Len(The(out.ran.acked))

\* A get answered StatusOk whose value was put between its dispatch and its run.
C1_Witness ==
    /\ FromTask /\ IsGet(out.req) /\ HasStatus(out.res, "StatusOk")
    /\ out.seen.acked # {}
    /\ out.ran.acked # out.seen.acked

----------------------------------------------------------------------------
----------------------------------------------------------------------------
(* C3: a native get on an existing tenant and table whose key is not in the *)
(* table is answered StatusObjectDoesNotExist with an empty payload, never  *)
(* StatusOk with an empty value.                                            *)
C3_GetMissingKey ==
    (FromTask /\ IsGet(out.req) /\ out.seen.tenant # {}
        /\ out.ran.hasTable /\ out.ran.stored = {})
    => /\ HasStatus(out.res, "StatusObjectDoesNotExist")
       /\ out.res.payload = <<>>
       /\ out.res.value_length = 0

\* A get of a missing key in an existing table has been answered.
C3_Witness ==
    /\ FromTask /\ IsGet(out.req) /\ out.seen.tenant # {}
    /\ out.ran.hasTable /\ out.ran.stored = {}

----------------------------------------------------------------------------
(* C4: a native get or put by an existing tenant against a table the tenant *)
(* does not own is answered StatusTableDoesNotExist, and the step that runs *)
(* it modifies no table of any tenant.                                      *)
C4_GetPutMissingTable ==
    [][(out'.full /\ ~out.full /\ out'.from = "task" /\ IsGetPut(out'.req)
            /\ out'.seen.tenant # {} /\ ~out'.ran.hasTable)
       => /\ HasStatus(out'.res, "StatusTableDoesNotExist")
          /\ tenantObjs' = tenantObjs]_vars

\* A put into a table its (existing) tenant does not own has been answered.
C4_Witness ==
    /\ FromTask /\ IsPut(out.req) /\ out.seen.tenant # {}
    /\ ~out.ran.hasTable
    /\ Len(out.req.payload) > out.req.key_length

----------------------------------------------------------------------------
(* C5: for a get, put or invoke whose tenant is not in the registry when it *)
(* is dispatched, and whose payload length passes validation, the response  *)
(* handed to transmit carries StatusTenantDoesNotExist.                     *)
C5_UnknownTenant ==
    (out.full /\ (IsGetPut(out.req) \/ IsInvoke(out.req))
        /\ ~Short(out.req) /\ out.seen.tenant = {})
    => HasStatus(out.res, "StatusTenantDoesNotExist")

\* A get of an unknown tenant has been answered by its task.
C5_Witness ==
    /\ FromTask /\ IsGet(out.req) /\ out.seen.tenant = {}

\* An invoke of an unknown tenant has been answered by dispatch.
C5_WitnessInvoke ==
    /\ FromDispatch /\ IsInvoke(out.req) /\ ~Short(out.req)
    /\ out.seen.tenant = {}

----------------------------------------------------------------------------
(* C6: tenant existence is validated at dispatch, before a task is created: *)
(* for a get, put or invoke whose tenant does not exist, dispatch returns   *)
(* the error pair with StatusTenantDoesNotExist and constructs no task.     *)
(* master.rs does this for invoke only: get and put return a Native task    *)
(* that holds the failed lookup and reports the status when it runs.        *)
C6_TenantValidatedAtDispatch ==
    /\ \A i \in 1..Len(tasks) : tasks[i].seen.tenant # {}
    /\ (out.full /\ (IsGetPut(out.req) \/ IsInvoke(out.req))
            /\ ~Short(out.req) /\ out.seen.tenant = {})
       => (out.from = "dispatch"
           /\ HasStatus(out.res, "StatusTenantDoesNotExist"))

----------------------------------------------------------------------------
(* C7: a get or put whose payload is shorter than key_length, and an invoke *)
(* whose payload is shorter than name_length + args_length, is returned by  *)
(* dispatch with StatusMalformedRequest; no task is created for it, and the *)
(* tenant registry and all tables are left unchanged.                       *)
C7_ShortPayload ==
    [][/\ \A i \in 1..Len(tasks') : ~Short(tasks'[i].task.req)
       /\ (panicked' # NoPanic => ~Short(panicked'.req))
       /\ (out'.full /\ Short(out'.req))
          => (out'.from = "dispatch"
              /\ HasStatus(out'.res, "StatusMalformedRequest"))
       /\ (out'.full /\ ~out.full /\ Short(out'.req))
          => (tasks' = tasks /\ tenants' = tenants /\ tenantObjs' = tenantObjs)
      ]_vars

\* A put whose payload is shorter than its key has been returned by dispatch.
C7_Witness ==
    /\ FromDispatch /\ IsPut(out.req) /\ Short(out.req)
    /\ HasStatus(out.res, "StatusMalformedRequest")

\* An invoke whose payload is shorter than name + args has been returned.
C7_WitnessInvoke ==
    /\ FromDispatch /\ IsInvoke(out.req) /\ Short(out.req)

----------------------------------------------------------------------------
(* C8: for a request whose opcode is not get, put or invoke, dispatch       *)
(* creates no task and the response it returns carries                      *)
(* StatusMalformedRequest.                                                  *)
(* master.rs returns the response as it was handed in: no header is pushed  *)
(* and no status is set.                                                    *)
C8_UnknownOpcodeMalformed ==
    /\ \A i \in 1..Len(tasks) :
          IsGetPut(tasks[i].task.req) \/ IsInvoke(tasks[i].task.req)
    /\ (out.full /\ ~IsGetPut(out.req) /\ ~IsInvoke(out.req))
       => (out.from = "dispatch"
           /\ HasStatus(out.res, "StatusMalformedRequest"))

----------------------------------------------------------------------------
(* C9: an invoke from an existing tenant that names an extension not loaded *)
(* for that tenant (even if it is loaded for another) is returned by        *)
(* dispatch with StatusInvalidExtension and no task; a Container task is    *)
(* created only when the tenant exists and the extension is authorized.     *)
C9_UnauthorizedExtension ==
    /\ \A i \in 1..Len(tasks) :
          /\ IsInvoke(tasks[i].task.req) <=> tasks[i].task.kind = "Container"
          /\ tasks[i].task.kind = "Container"
             => (tasks[i].seen.tenant # {} /\ tasks[i].seen.authorized)
    /\ (out.full /\ IsInvoke(out.req) /\ ~Short(out.req)
            /\ out.seen.tenant # {} /\ ~out.seen.authorized)
       => (out.from = "dispatch"
           /\ HasStatus(out.res, "StatusInvalidExtension"))
    /\ panicked # NoPanic => ~IsUtf8(ReqName(panicked.req))

\* An invoke of an extension that is loaded for another tenant only has been
\* returned by dispatch.
C9_Witness ==
    /\ FromDispatch /\ IsInvoke(out.req) /\ ~Short(out.req)
    /\ out.seen.tenant # {} /\ ~out.seen.authorized
    /\ \E e \in extensions : e[1] # out.req.tenant /\ e[2] = ReqName(out.req)

----------------------------------------------------------------------------
(* C10: for every RPC handed to dispatch, the response returned for it      *)
(* carries the stamp of the request's common header.                        *)
(* Fails for an unknown opcode (C8): that response has no RPC header.       *)
C10_StampEchoed ==
    out.full => (out.res.hdr # "Udp" /\ out.res.stamp = out.req.stamp)

\* What the code does guarantee: every response with an RPC header echoes the
\* request's stamp.
C10_StampEchoedWhenHeaderPushed ==
    (out.full /\ out.res.hdr # "Udp") => out.res.stamp = out.req.stamp

----------------------------------------------------------------------------
(* C11: no request can abort a worker: for every request, dispatch and the  *)
(* run of its task return normally; no panic state is reachable.            *)
(* master.rs: invoke() reads the extension's name with                      *)
(* String::from_utf8(name).expect(..), which panics inside dispatch when    *)
(* the name bytes are not UTF-8.                                            *)
C11_NoPanic == panicked = NoPanic

----------------------------------------------------------------------------
(* C12: when an extension's Context.resp does not fit in the response       *)
(* payload, the failure is returned to the extension, not raised as a       *)
(* panic, and the task completes with StatusInternalError.                  *)
(* context.rs: resp() returns nothing and unwrap()s the result of           *)
(* add_to_payload_tail: data that does not fit panics inside the slice.     *)
C12_RespOverflowSurfaced ==
    (FromTask /\ out.run.kind = "Container" /\ out.run.overflow)
    => /\ ~out.run.unwound
       /\ out.run.state = "COMPLETED"
       /\ HasStatus(out.res, "StatusInternalError")

\* The tasks the client holds: in its run-queue and in its manager map.
ClientTasks ==
    {client.waiting[i] : i \in 1..Len(client.waiting)}
        \cup {client.manager[s] : s \in DOMAIN client.manager}

(* C13: after any run() a task's state is one of the five task states, and  *)
(* a task that has reported COMPLETED is never run or enqueued again: no    *)
(* task in the server's run-queue, in the client's run-queue or in the      *)
(* client's manager map is COMPLETED, and a task the client completed is    *)
(* gone from both.                                                          *)
C13_CompletedIsFinal ==
    /\ \A i \in 1..Len(tasks) :
          tasks[i].task.state \in TaskStates \ {"COMPLETED"}
    /\ FromTask => out.run.state \in TaskStates
    /\ \A m \in ClientTasks : m.state \in TaskStates \ {"COMPLETED"}
    /\ \A m \in client.done \cup client.dropped : m.state \in TaskStates
    /\ \A m \in client.done :
          m.state = "COMPLETED" /\ \A q \in ClientTasks : q.id # m.id

\* A pushed-back task completed on the client while another is still queued.
C13_Witness ==
    /\ client.done # {}
    /\ client.waiting # <<>>

(* C14: every native get or put task reaches COMPLETED on its first run()   *)
(* and yields its (request, response) pair: a native task in the run-queue  *)
(* has not run yet, and the pair a native task hands to transmit comes from *)
(* a COMPLETED task, is not a pushback, and answers its own request.        *)
C14_NativeCompletesAtOnce ==
    /\ \A i \in 1..Len(tasks) :
          tasks[i].task.kind = "Native" => tasks[i].task.state = "INITIALIZED"
    /\ (FromTask /\ IsGetPut(out.req))
          => /\ out.run.kind = "Native"
             /\ out.run.state = "COMPLETED"
             /\ out.run.time = 0
             /\ ~out.run.pushed
             /\ out.res.status # "StatusPushback"
             /\ out.res.stamp = out.req.stamp
             /\ out.res.hdr = IF IsGet(out.req) THEN "GetResponse" ELSE "PutResponse"

\* A native put has run once, stored its value and handed over its pair;
\* nothing of it is left in the run-queue.
C14_Witness ==
    /\ FromTask /\ IsPut(out.req) /\ out.run.state = "COMPLETED"
    /\ HasStatus(out.res, "StatusOk")
    /\ tasks = <<>>

\* A step of the execute phase: the head of the run-queue ran.
ExecuteStep ==
    /\ out = NoOut /\ tasks # <<>>
    /\ tasks' # tasks /\ Len(tasks') <= Len(tasks)

(* C15: in the execute phase a task is pushed back if and only if its run() *)
(* returned YIELDED with cycles consumed above its budget; a task that      *)
(* completed is committed; any other task (YIELDED within budget) is put    *)
(* back at the tail of the run-queue and nothing is handed to transmit; a   *)
(* pushed-back task leaves the run-queue.                                   *)
C15_PushbackIffOverBudget ==
    [][ExecuteStep =>
          LET e == Head(tasks)
              n == Len(tasks)
              last == tasks'[n].task
          IN  \/ /\ out'.full /\ out'.from = "task" /\ out'.req = e.task.req
                  /\ out'.run.pushed
                  /\ out'.run.state = "YIELDED" /\ out'.run.time > out'.run.budget
                  /\ out'.res.status = "StatusPushback"
                  /\ tasks' = Tail(tasks)
              \/ /\ out'.full /\ out'.from = "task" /\ out'.req = e.task.req
                  /\ ~out'.run.pushed
                  /\ out'.run.state = "COMPLETED"
                  /\ out'.res.status # "StatusPushback"
                  /\ tasks' = Tail(tasks)
              \/ /\ out' = NoOut
                  /\ Len(tasks') = n
                  /\ SubSeq(tasks', 1, n - 1) = Tail(tasks)
                  /\ last.req = e.task.req /\ last.time > e.task.time
                  /\ last.state \in YieldStates
                  /\ ~(last.state = "YIELDED" /\ last.time > last.budget)]_vars

\* A task was pushed back while another, which yielded within its budget,
\* is back in the run-queue.
C15_Witness ==
    /\ FromTask /\ out.run.pushed
    /\ \E i \in 1..Len(tasks) :
          tasks[i].task.state = "YIELDED" /\ tasks[i].task.time > 0

InQueue(k) == \E i \in 1..Len(tasks) : tasks[i].id = k

(* C16: every task admitted to the run-queue eventually leaves it with one  *)
(* response handed to transmit, a commit after COMPLETED or a pushback      *)
(* after it exceeded its budget; the task whose response is in transmit is  *)
(* no longer queued, so no task stays queued for ever and none answers      *)
(* twice.                                                                   *)
C16_EveryTaskAnswersOnce ==
    /\ [](FromTask => ~InQueue(out.id))
    /\ \A k \in 1..MaxSchedTasks :
          InQueue(k) ~> (/\ FromTask /\ out.id = k
                         /\ \/ out.run.state = "COMPLETED" /\ ~out.run.pushed
                            \/ out.run.pushed /\ out.run.time > out.run.budget)

\* An extension that never completes was put back in the run-queue and, at
\* a later slice, pushed back.
C16_Witness ==
    /\ FromTask /\ out.run.pushed
    /\ out.run.task.script.forever
    /\ out.run.time > MaxSliceCycles

\* The response in `out` is the pushback of a task.
PushedBack == FromTask /\ out.run.pushed

\* Every entry has a key of KEY_LENGTH bytes and a value that fills the rest
\* of a record of RECORD_SIZE bytes.
Conforming(set) ==
    \A i \in 1..Len(set) :
        /\ Len(set[i].key) = KEY_LENGTH
        /\ Len(set[i].value) = RECORD_SIZE - 1 - KEY_LENGTH

\* The i-th stretch of RECORD_SIZE bytes of a payload.
RecordAt(payload, i) ==
    SubSeq(payload, (i - 1) * RECORD_SIZE + 1, i * RECORD_SIZE)

\* The payload is one record of RECORD_SIZE bytes per entry: the read-set's
\* in order, tagged 1, and then the write-set's in order, tagged 2.
FixedWidthRecords(payload, readset, writeset) ==
    /\ Len(payload) = RECORD_SIZE * (Len(readset) + Len(writeset))
    /\ \A i \in 1..Len(readset) :
          RecordAt(payload, i) = <<1>> \o readset[i].key \o readset[i].value
    /\ \A i \in 1..Len(writeset) :
          RecordAt(payload, Len(readset) + i)
              = <<2>> \o writeset[i].key \o writeset[i].value

IssuerOf(req) ==
    [add_request(AuthRecvSend_new(Resps, NumReqs), req.payload, req.tenant,
                 req.name_length, req.stamp) EXCEPT
        !.outstanding = 1, !.sent = 1, !.clock = req.stamp]

\* The task that client has on its run-queue after recv() of the response.
Restored(req, res) == Head(recv_packet(IssuerOf(req), res, FALSE).waiting)

RECURSIVE RunToEnd(_, _, _)
RunToEnd(t, objs, fuel) ==
    IF t.state = "COMPLETED" \/ fuel = 0 THEN t
    ELSE LET r == Container_run(t, objs, TRUE, 1, "YIELDED")
         IN  RunToEnd(r.task, r.objs, fuel - 1)

\* The response of the pushed-back task in `out`, had it not been
\* interrupted.
Uninterrupted ==
    Task_commit(RunToEnd(out.run.task, tenantObjs,
                         Len(out.run.task.script.slices) + 1))[2]

\* The key of the get a waiting task is blocked on, and the server's answer.
BlockedKey(m) ==
    LET slice == m.script.slices[m.pc]
        i == CHOOSE i \in 1..Len(slice) :
                 /\ slice[i].op = "get"
                 /\ \A j \in 1..(i - 1) : slice[j].op # "get"
    IN  slice[i].key

AnswerOfGet(m) ==
    LET v == Context_get(out.run.task.db, tenantObjs, 1, BlockedKey(m))
    IN  [hdr |-> "GetResponse",
         status |-> IF v = {} THEN "StatusObjectDoesNotExist" ELSE "StatusOk",
         stamp |-> m.id,
         value_length |-> IF v = {} THEN 0 ELSE Len(The(v)),
         payload |-> IF v = {} THEN <<>> ELSE The(v)]

\* The client's loop on the pushed-back task: execute_task() while the task
\* is on the run-queue; when it waits on a get, recv() of the answer.
RECURSIVE Replay(_, _)
Replay(cl, fuel) ==
    IF fuel = 0 THEN cl
    ELSE IF cl.waiting # <<>> THEN Replay(execute_task(cl, "YIELDED"), fuel - 1)
    ELSE IF DOMAIN cl.manager # {}
    THEN Replay(recv_packet(cl, AnswerOfGet(cl.manager[The(DOMAIN cl.manager)]),
                            FALSE), fuel - 1)
    ELSE cl

ReplayFuel == 2 * (Len(out.run.task.script.slices) + 2)

Replayed == Replay(recv_packet(IssuerOf(out.req), out.res, FALSE), ReplayFuel)

(* C19: replaying a pushback response on the client produces the same final *)
(* response as the same invoke run to completion on the server without      *)
(* interruption.  Checked for the tasks that would complete on the server   *)
(* and whose read/write-set has the sizes the client decodes with.          *)
(* It fails: a replay that reads a key which is not in the restored         *)
(* read/write-set waits on a get whose answer never reaches the task.       *)
C19_ReplayEqualsUninterrupted ==
    (PushedBack /\ ~out.run.task.script.forever
        /\ Conforming(out.run.readset) /\ Conforming(out.run.writeset))
    => /\ Replayed.done # {}
       /\ \A m \in Replayed.done : m.resp = Uninterrupted.payload

\* A step of recv()'s loop, and the packet it pops.
RecvStep ==
    /\ client.phase = "recv_loop" /\ client.rx # <<>>
    /\ client'.rx # client.rx

Popped == client.rx[Len(client.rx)]

IsPushback(packet) ==
    packet.hdr = "InvokeResponse" /\ packet.status = "StatusPushback"

(* C20: when recv() pops an invoke response with status Pushback whose      *)
(* stamp is recorded in the manager map, the task leaves the map, its       *)
(* read/write-set is the one the payload's records spell, and it is         *)
(* appended once to the tail of the run-queue, behind the tasks that were   *)
(* there; when no request is recorded under the stamp, the run-queue and    *)
(* the map are left as they were.                                           *)
C20_PushbackRequeuesRecordedTask ==
    [][(RecvStep /\ IsPushback(Popped))
         => LET stamp == Popped.stamp
                n == Len(client.waiting)
                last == client'.waiting[n + 1]
            IN  IF stamp \in DOMAIN client.manager
                THEN /\ stamp \notin DOMAIN client'.manager
                     /\ Len(client'.waiting) = n + 1
                     /\ SubSeq(client'.waiting, 1, n) = client.waiting
                     /\ last.id = stamp
                     /\ last.req = client.manager[stamp].req
                     /\ FixedWidthRecords(Popped.payload, last.readset,
                                          last.writeset)
                     /\ \A i \in 1..n : client.waiting[i].id # stamp
                ELSE /\ client'.waiting = client.waiting
                     /\ client'.manager = client.manager]_vars

\* recv() has put a pushed-back task, with the read and the write of the
\* payload, behind another task on the run-queue and taken it out of the
\* map.
C20_Witness ==
    /\ Len(client.waiting) = 2
    /\ client.waiting[2].readset # <<>> /\ client.waiting[2].writeset # <<>>
    /\ client.waiting[2].id \notin DOMAIN client.manager
    /\ client.waiting[2].state = "INITIALIZED"

----------------------------------------------------------------------------
(* The accesses a Context has recorded.  struct Context holds the request,  *)
(* the offset and length of the arguments, the response, the tenant and the *)
(* heap: it has no read-set and no write-set, and get() and put() take      *)
(* &self and store nothing in it (the comment in get() announces an update  *)
(* of the read set that no statement performs).                             *)
Context_rwset(db) == [readset |-> <<>>, writeset |-> <<>>]

\* The successful gets and puts of the extension of a Container task, in the
\* order it performed them (the lists ext_call keeps).
Performed(t) == [readset |-> t.readset, writeset |-> t.writeset]

(* C21: every successful Context.get appends one entry to the task's        *)
(* read-set and every successful Context.put one entry to its write-set: at *)
(* any time the sets the context has recorded list exactly the successful   *)
(* gets and puts the extension has performed, in order.                     *)
C21_ContextRecordsAccesses ==
    /\ \A k \in 1..Len(tasks) :
          tasks[k].task.kind = "Container"
              => Context_rwset(tasks[k].task.db) = Performed(tasks[k].task)
    /\ (out.full /\ out.run.kind = "Container")
              => Context_rwset(out.run.task.db) = Performed(out.run.task)

----------------------------------------------------------------------------
(* Context.get against the native get, on the database as it stands.        *)

ProbeKeys == {SmallKey, AuthKey, FillKey(1), <<9>>}

\* The response of a native get RPC by the tenant for the table and key:
\* Master::get, then the run of its generator.
NativeGet(tenant_id, table_id, key) ==
    get_gen(get([opcode |-> "SandstormGetRpc", tenant |-> tenant_id,
                 stamp |-> 99, table_id |-> table_id,
                 key_length |-> Len(key), payload |-> key],
                UdpResponse).task)

\* The Context Master::invoke builds for an invocation by the tenant.
ContextOf(tenant_id) ==
    Context_new([opcode |-> "SandstormInvokeRpc", tenant |-> tenant_id,
                 stamp |-> 99, name_length |-> 3, args_length |-> 0,
                 payload |-> NameGet],
                3, 0, push_header(UdpResponse, "InvokeResponse", 99),
                The(get_tenant(tenant_id)))

Probes ==
    {p \in DbTenants \X TableIds \X ProbeKeys : get_tenant(p[1]) # {}}

\* The value fits in the payload of a response packet.
FitsResponse(value) == Len(value) <= PayloadCapacity

(* C22 as stated: Context.get returns a value if and only if the native get *)
(* of the same tenant, table and key returns Ok, and then the same bytes;   *)
(* it returns nothing exactly when the native get returns                   *)
(* TableDoesNotExist, ObjectDoesNotExist or InternalError.                  *)
C22_ContextGetIffNativeOk ==
    \A p \in Probes :
        LET v == Context_get(ContextOf(p[1]), tenantObjs, p[2], p[3])
            n == NativeGet(p[1], p[2], p[3])
        IN  /\ (v # {}) <=> (n.status = "StatusOk")
            /\ (v # {}) => n.payload = The(v)
            /\ (v = {}) <=> n.status \in {"StatusTableDoesNotExist",
                                          "StatusObjectDoesNotExist",
                                          "StatusInternalError"}

(* C22, amended: Context.get returns a value exactly when the table holds   *)
(* an object under the key.  The native get then returns Ok with the same   *)
(* bytes if the value fits in a response payload, and InternalError with an *)
(* empty payload if it does not.  Context.get returns nothing exactly when  *)
(* the native get returns TableDoesNotExist or ObjectDoesNotExist.          *)
C22_ContextGetRefinesNativeGet ==
    \A p \in Probes :
        LET v == Context_get(ContextOf(p[1]), tenantObjs, p[2], p[3])
            n == NativeGet(p[1], p[2], p[3])
        IN  /\ (v # {} /\ FitsResponse(The(v)))
                   <=> (n.status = "StatusOk")
            /\ (n.status = "StatusOk") => n.payload = The(v)
            /\ (v # {} /\ ~FitsResponse(The(v)))
                   <=> (n.status = "StatusInternalError")
            /\ (n.status = "StatusInternalError") => n.payload = <<>>
            /\ (v = {}) <=> n.status \in {"StatusTableDoesNotExist",
                                          "StatusObjectDoesNotExist"}

\* A native get was answered Ok with the value Context.get returns, in a
\* state where the same table also holds a value too large for a response.
C22_Witness ==
    /\ out.full /\ out.from = "task"
    /\ out.req.opcode = "SandstormGetRpc" /\ out.res.status = "StatusOk"
    /\ Context_get(ContextOf(out.req.tenant), tenantObjs, out.req.table_id,
                   out.req.payload) = {out.res.payload}
    /\ LET big == Context_get(ContextOf(out.req.tenant), tenantObjs, 1, AuthKey)
       IN  /\ big = {BigVal}
           /\ NativeGet(out.req.tenant, 1, AuthKey).status = "StatusInternalError"

----------------------------------------------------------------------------
(* Context.put of any write-buffer, on the database as it stands.           *)

ProbeVals == {<<8>>, AuthVal}

\* A write-buffer for the table and key, filled with the value.
WriteBufOf(tenant_id, table_id, key, val) ==
    write_slice(WriteBuf_new(table_id,
                             The(raw(tenant_id, table_id, key, Len(val), TRUE))),
                val)

(* C23: Context.put returns false and leaves every table unchanged when the *)
(* write-buffer's table id is not a table of the invoking tenant; when it   *)
(* returns true, a get of that key in that table by the same tenant then    *)
(* returns the buffer's value.                                              *)
C23_ContextPut ==
    \A p \in Probes, val \in ProbeVals :
        LET db == ContextOf(p[1])
            r == Context_put(db, tenantObjs, WriteBufOf(p[1], p[2], p[3], val))
        IN  /\ get_table(tenantObjs[db.tenant], p[2]) = {}
                  => (~r.ok /\ r.objs = tenantObjs)
            /\ r.ok => Context_get(db, r.objs, p[2], p[3]) = {val}

\* An extension's put returned true and its get of the same key returned the
\* value put; the tenant has no table 2, where a put returns false.
C23_Witness ==
    /\ out.full /\ out.from = "task" /\ out.run.kind = "Container"
    /\ out.run.writeset = <<[key |-> SmallKey, value |-> <<8>>]>>
    /\ out.run.readset = <<[key |-> SmallKey, value |-> <<8>>]>>
    /\ LET db == out.run.task.db
       IN  /\ get_table(tenantObjs[db.tenant], 2) = {}
           /\ ~Context_put(db, tenantObjs,
                           WriteBufOf(tenantObjs[db.tenant].id, 2, SmallKey, <<8>>)).ok

----------------------------------------------------------------------------
\* A step of the receive phase: a request and its pre-allocated response
\* went through Master::dispatch.
DispatchStep ==
    /\ out = NoOut
    /\ \/ Len(tasks') = Len(tasks) + 1
       \/ out'.full /\ out'.from = "dispatch"
       \/ panicked' # panicked

\* The packets a task holds: what its commit() hands back.
Held(t) == Task_commit(t)

(* C24: each request/response pair has exactly one owner.  Dispatch either  *)
(* returns a task that holds both packets or returns both packets in its    *)
(* error result, never both and never neither; a completed task's commit    *)
(* hands its packets to transmit once, and the task is gone from the queue. *)
C24_PacketsHeldOnce ==
    /\ [][DispatchStep =>
            \/ /\ Len(tasks') = Len(tasks) + 1
               /\ SubSeq(tasks', 1, Len(tasks)) = tasks
               /\ Held(tasks'[Len(tasks')].task)[1] \in Requests
               /\ Held(tasks'[Len(tasks')].task)[2].hdr # "Udp"
               /\ out' = NoOut
            \/ /\ tasks' = tasks
               /\ out'.full /\ out'.from = "dispatch"
               /\ out'.req \in Requests]_vars
    /\ [][(ExecuteStep /\ out'.full) =>
            /\ tasks' = Tail(tasks)
            /\ out'.req = Held(Head(tasks).task)[1]]_vars

----------------------------------------------------------------------------
(* Tenant isolation.                                                        *)

\* The Tenant object a task works on: the Arc<Tenant> its generator or its
\* Context captured at dispatch (none for a get or put of an unknown tenant).
TenantOf(t) == IF t.kind = "Container" THEN {t.db.tenant} ELSE t.tenant

\* The Tenant objects with the tables of every tenant but one emptied out.
Alone(objs, h) ==
    [g \in 1..Len(objs) |-> IF g = h THEN objs[g] ELSE Tenant_new(objs[g].id)]

(* C25: for two distinct tenants A and B, no native get/put and no Context  *)
(* get/alloc/put issued by A reads or modifies an entry of a table of B,    *)
(* even under the same table id and key: a task of A works on the Tenant    *)
(* object registered for A, its run leaves every other Tenant object as it  *)
(* was, and its results are what they would be had the others put nothing.  *)
C25_TenantIsolation ==
    [][ExecuteStep =>
          LET t == Head(tasks).task
              hs == TenantOf(t)
          IN  /\ \A h \in hs : tenantObjs[h].id = t.req.tenant
              /\ \A g \in 1..Len(tenantObjs) :
                     g \notin hs => tenantObjs'[g] = tenantObjs[g]
              /\ (t.kind = "Native" /\ t.gen = "get" /\ out'.full
                      /\ out'.res.status = "StatusOk")
                     => \A h \in hs :
                            out'.res.payload =
                                tenantObjs[h].tables[t.table_id][ReqKey(t.req)].value
              /\ t.kind = "Container"
                     => \A h \in hs, fits \in BOOLEAN, again \in YieldStates :
                            LET r == Container_run(t, tenantObjs, fits, 1, again)
                                a == Container_run(t, Alone(tenantObjs, h), fits,
                                                   1, again)
                            IN  r.task = a.task /\ r.objs[h] = a.objs[h]]_vars

\* Tenant 1's extension read 5 under the key where, under the same table id,
\* tenant 2 holds 6: both tenants have put.
C25_Witness ==
    /\ out.full /\ out.from = "task" /\ out.run.kind = "Container"
    /\ out.req.tenant = 1
    /\ out.run.readset = <<[key |-> SmallKey, value |-> <<5>>]>>
    /\ out.res.payload = <<5>>
    /\ \E g \in 1..Len(tenantObjs) :
          /\ tenantObjs[g].id = 2
          /\ MapGet(tenantObjs[g].tables[1], SmallKey) # {}
          /\ tenantObjs[g].tables[1][SmallKey].value = <<6>>

----------------------------------------------------------------------------
\* Ids looked up: the registered ones, and 65, which falls in the bucket of
\* 1, 33 and 257 and is never inserted.
LookupIds == RegTenants \cup {65}

\* A call of insert_tenant: a Tenant object was created and registered.
InsertStep == Len(tenantObjs') = Len(tenantObjs) + 1

(* C26: get_tenant(id) returns the tenant most recently inserted with that  *)
(* id, or nothing if none was inserted; an insert replaces only the entry   *)
(* with the same id and leaves get_tenant unchanged for every other id,     *)
(* ids of the same bucket included.                                         *)
C26_Registry ==
    /\ [](\A id \in LookupIds : get_tenant(id) = LatestTenant(id))
    /\ [][InsertStep =>
            LET new == Len(tenantObjs')
                id == tenantObjs'[new].id
            IN  /\ MapGet(tenants'[bucket(id)], id) = {new}
                /\ \A o \in LookupIds \ {id} :
                       MapGet(tenants'[bucket(o)], o) = get_tenant(o)]_vars

\* 1 and 33 share a bucket; 33 was inserted between two inserts of 1.
C26_Witness ==
    /\ bucket(1) = bucket(33)
    /\ Len(tenantObjs) = 3
    /\ tenantObjs[1].id = 1 /\ tenantObjs[2].id = 33 /\ tenantObjs[3].id = 1
    /\ get_tenant(1) = {3} /\ get_tenant(33) = {2} /\ get_tenant(65) = {}

----------------------------------------------------------------------------
(* C27: a task whose run() returns RUNNABLE is put back at the tail of the  *)
(* run-queue and will be run again; it is never dropped.  On the server: a  *)
(* task that ran and was not handed to transmit is at the tail of the       *)
(* run-queue.  On the client: no task that execute_task() took off the      *)
(* run-queue and let go had reported RUNNABLE.                              *)
C27_RunnableRequeued ==
    /\ [][(ExecuteStep /\ out' = NoOut) =>
            /\ Len(tasks') = Len(tasks)
            /\ tasks'[Len(tasks')].id = Head(tasks).id]_vars
    /\ [](\A m \in client.dropped : m.state # "RUNNABLE")

----------------------------------------------------------------------------
\* The ids of the tasks that wait: the entries of the manager map that a
\* run() reporting WAITING put there.
WaitingIds ==
    {id \in DOMAIN client.manager : client.manager[id].state = "WAITING"}

\* recv() pops a response that bears the stamp.
Arrives(stamp) ==
    RecvStep /\ Popped.hdr # "Udp" /\ Popped.stamp = stamp

\* execute_task() runs the head of the run-queue and its run() reports WAITING.
BlocksStep ==
    /\ client.phase = "execute_task" /\ client'.phase = "send"
    /\ ~(client.finished /\ Len(client.waiting) = 0)
    /\ client.waiting # <<>>
    /\ TaskManager_execute_task(Head(client.waiting), "YIELDED").state = "WAITING"

----------------------------------------------------------------------------
\* One step of a run-queue: at most its head is popped, and what is new is
\* behind everything that stays, which keeps its order.
FifoStep(q, q2) ==
    \E k \in {0, 1} :
        /\ k <= Len(q)
        /\ Len(q2) >= Len(q) - k
        /\ SubSeq(q2, 1, Len(q) - k) = SubSeq(q, k + 1, Len(q))

\* The client's execute_task() ran the head of a non-empty run-queue.
ClientRunStep ==
    /\ client.phase = "execute_task" /\ client'.phase = "send"
    /\ ~(client.finished /\ Len(client.waiting) = 0)
    /\ client.waiting # <<>>

(* C29: tasks of one priority run in FIFO order of their (re-)enqueueing:   *)
(* the run-queue is popped only at the head and pushed only at the tail.    *)
(* The task that runs is the head; the tasks behind it keep their places    *)
(* in front of whatever is enqueued, the task itself included when it       *)
(* yields, so it runs again only after each of them has run.                *)
C29_Fifo ==
    /\ [][FifoStep(client.waiting, client'.waiting)]_vars
    /\ [][FifoStep(tasks, tasks')]_vars
    /\ [][ClientRunStep =>
            LET n == Len(client.waiting)
            IN  /\ SubSeq(client'.waiting, 1, n - 1) = Tail(client.waiting)
                /\ Len(client'.waiting) \in {n - 1, n}
                /\ Len(client'.waiting) = n
                      => /\ client'.waiting[n].id = Head(client.waiting).id
                         /\ client'.waiting[n].state = "YIELDED"]_vars
    /\ [][ExecuteStep =>
            LET n == Len(tasks)
            IN  /\ SubSeq(tasks', 1, n - 1) = Tail(tasks)
                /\ Len(tasks') = n => tasks'[n].id = Head(tasks).id]_vars

\* On the client a task that yielded stands behind a task that has not run
\* yet.
C29_Witness ==
    /\ Len(client.waiting) = 2
    /\ client.waiting[1].state = "INITIALIZED"
    /\ client.waiting[2].state = "YIELDED"

----------------------------------------------------------------------------
\* The task of a native put runs.
PutStep ==
    /\ ExecuteStep
    /\ Head(tasks).task.kind = "Native" /\ Head(tasks).task.gen = "put"

\* The answer of a get of the put's key by a task that holds the same tenant.
GetOfPutKey(t) ==
    get_gen(Native_new("get", t.req,
                       push_header(UdpResponse, "GetResponse", t.req.stamp),
                       t.tenant, t.tenant_id, t.table_id, t.key_length))

(* C30: a native put reports Ok if and only if the object was allocated and *)
(* installed in the table: after Ok the table holds the request's value     *)
(* under its key, after any other status every table is as it was.  When    *)
(* the tenant and the table exist and there is a value, the put is Ok if    *)
(* the allocator succeeds and InternalError if it fails; after              *)
(* InternalError a get of the key returns what it returned before the put.  *)
C30_PutOkIffInstalled ==
    [][PutStep =>
          LET t == Head(tasks).task
              key == ReqKey(t.req)
              val == SubSeq(t.req.payload, t.key_length + 1, Len(t.req.payload))
              status == out'.res.status
              can == /\ t.tenant # {}
                     /\ get_table(tenantObjs[The(t.tenant)], t.table_id) # {}
                     /\ Len(val) > 0
          IN  /\ out'.full /\ out'.req = t.req
              /\ status = "StatusOk"
                    => /\ can
                       /\ out'.res = put_gen(t, TRUE).res
                       /\ tenantObjs' = put_gen(t, TRUE).objs
                       /\ LET table == tenantObjs'[The(t.tenant)].tables[t.table_id]
                          IN  /\ key \in DOMAIN table
                              /\ table[key].value = val
                              /\ resolve(table[key]) = {<<key, val>>}
              /\ status # "StatusOk" => tenantObjs' = tenantObjs
              /\ can => /\ status \in {"StatusOk", "StatusInternalError"}
                        /\ put_gen(t, TRUE).res.status = "StatusOk"
                        /\ put_gen(t, FALSE).res.status = "StatusInternalError"
                        /\ put_gen(t, FALSE).objs = tenantObjs
              /\ ~can => status \notin {"StatusOk", "StatusInternalError"}
              /\ status = "StatusInternalError"
                    => \A task \in {t} : GetOfPutKey(task)' = GetOfPutKey(task)]_vars

\* A put of a key that holds a value was answered InternalError: the
\* allocator failed, and the key still holds the value it held.
C30_Witness ==
    /\ FromTask /\ IsPut(out.req)
    /\ HasStatus(out.res, "StatusInternalError")
    /\ out.ran.stored # {}
    /\ out.seen.tenant # {}
    /\ LET table == tenantObjs[The(out.seen.tenant)].tables[out.req.table_id]
       IN  /\ ReqKey(out.req) \in DOMAIN table
           /\ {table[ReqKey(out.req)].value} = out.ran.stored
           /\ The(out.ran.stored) #
                 SubSeq(out.req.payload, out.req.key_length + 1,
                        Len(out.req.payload))

----------------------------------------------------------------------------
(* C31: a native put whose payload length equals its key_length (no value)  *)
(* on an existing tenant and table completes with status MalformedRequest   *)
(* and inserts, overwrites and deletes no entry: every table is as it was.  *)
C31_PutWithoutValue ==
    [][(PutStep
          /\ Len(Head(tasks).task.req.payload) = Head(tasks).task.key_length
          /\ Head(tasks).task.tenant # {}
          /\ get_table(tenantObjs[The(Head(tasks).task.tenant)],
                       Head(tasks).task.table_id) # {})
       => /\ out'.full /\ out'.from = "task"
          /\ out'.req = Head(tasks).task.req
          /\ out'.run.state = "COMPLETED"
          /\ out'.res.status = "StatusMalformedRequest"
          /\ tenantObjs' = tenantObjs]_vars

\* A put of fill_test's first key without a value was answered
\* MalformedRequest, and the key still holds fill_test's value.
C31_Witness ==
    /\ FromTask /\ IsPut(out.req)
    /\ Len(out.req.payload) = out.req.key_length
    /\ out.req.payload = FillKey(1)
    /\ HasStatus(out.res, "StatusMalformedRequest")
    /\ out.seen.tenant # {} /\ out.ran.hasTable
    /\ out.ran.stored = {FillVal(1)}
    /\ tenantObjs[The(out.seen.tenant)].tables[out.req.table_id][FillKey(1)].value
          = FillVal(1)

----------------------------------------------------------------------------
(* C32: after fill_test(tenant_id, table_id, num) returns, get_tenant of    *)
(* the id yields a tenant whose only table is table_id, holding exactly num *)
(* objects, one for each i in 1..num, with a 30-byte key and a 100-byte     *)
(* value whose first four bytes are i in little-endian; a tenant registered *)
(* under the id before is replaced.                                         *)
C32_FillTest ==
    [][InsertStep =>
          LET new == Len(tenantObjs')
              tenant == tenantObjs'[new]
          IN  /\ MapGet(tenants'[bucket(tenant.id)], tenant.id) = {new}
              /\ Cardinality(DOMAIN tenant.tables) = 1
              /\ \A tb \in DOMAIN tenant.tables :
                    LET table == tenant.tables[tb]
                    IN  /\ Cardinality(DOMAIN table) = tenant.num
                        /\ \A i \in 1..Cardinality(DOMAIN table) :
                              /\ FillKey(i) \in DOMAIN table
                              /\ table[FillKey(i)].value = FillVal(i)
                              /\ Len(FillKey(i)) = 30 /\ Len(FillVal(i)) = 100
                              /\ SubSeq(FillKey(i), 1, 4) = le_bytes(i)
                              /\ SubSeq(FillVal(i), 1, 4) = le_bytes(i)]_vars

\* Every pass of the loop of the fill_test that built the tenant is in its
\* table, and nothing else.
Populated(tenant) ==
    \A tb \in DOMAIN tenant.tables :
        LET table == tenant.tables[tb]
            passes == range_len(range_end(tenant.num))
        IN  /\ DOMAIN table = {FillKey(i) : i \in 1..passes}
            /\ \A i \in 1..passes : table[FillKey(i)].value = FillVal(i)

\* A call of fill_test for the tenant id has put some objects, not yet all.
PartlyFilled(tenant_id) ==
    \E f \in 1..Len(filling) :
        /\ filling[f].tenant.id = tenant_id
        /\ 1 < filling[f].i /\ filling[f].i < filling[f].end

(* C33: fill_test makes the new tenant visible through get_tenant only      *)
(* after its loop has put every object: whatever the interleaving with      *)
(* dispatches, the handle get_tenant yields, the handle a dispatched task   *)
(* holds, and the answer to a get of a key of the fill are those of a       *)
(* populated tenant (the previous entry of the id or the new one), never of *)
(* a tenant whose table is partly filled.                                   *)
C33_VisibleWhenFilled ==
    /\ \A id \in TenantIds : \A h \in get_tenant(id) : Populated(tenantObjs[h])
    /\ \A k \in 1..Len(tasks) : \A h \in tasks[k].task.tenant :
          Populated(tenantObjs[h])
    /\ \A i \in 1..MaxFillNum :
          (/\ FromTask /\ IsGet(out.req) /\ out.req.payload = FillKey(i)
           /\ out.seen.tenant # {}
           /\ i <= range_len(range_end(tenantObjs[The(out.seen.tenant)].num)))
          => /\ HasStatus(out.res, "StatusOk")
             /\ out.ran.stored = {FillVal(i)}

\* While a second fill_test of tenant 1 has put one object of two, a get
\* dispatched meanwhile was answered from the tenant registered before.
C33_Witness ==
    /\ PartlyFilled(1)
    /\ get_tenant(1) # {}
    /\ FromTask /\ IsGet(out.req) /\ out.req.payload = FillKey(2)
    /\ HasStatus(out.res, "StatusOk")
    /\ tenantObjs[The(out.seen.tenant)].num = 2

\* The head of the run-queue is a native get or put task, and it runs.
NativeStep ==
    /\ ExecuteStep
    /\ Head(tasks).task.kind = "Native"

(* C34: a native get or put task works on the tenant handle looked up when  *)
(* its request was dispatched.  When the task runs, whatever fill_test did  *)
(* to the registry since: with no tenant at dispatch it answers             *)
(* TenantDoesNotExist and writes nothing; with one, it does not answer      *)
(* TenantDoesNotExist, a get answered StatusOk carries the value that       *)
(* tenant's table held, a put answered StatusOk is stored in that tenant's  *)
(* table, and the tables of every other tenant object are untouched.        *)
C34_TaskKeepsItsTenant ==
    [][NativeStep =>
          \A e \in {Head(tasks)} :
             LET t == e.task
                 key == ReqKey(t.req)
             IN  /\ t.tenant = e.seen.tenant
                 /\ out'.full /\ out'.req = t.req
                 /\ e.seen.tenant = {}
                       => /\ HasStatus(out'.res, "StatusTenantDoesNotExist")
                          /\ tenantObjs' = tenantObjs
                 /\ \A h \in e.seen.tenant :
                       /\ ~HasStatus(out'.res, "StatusTenantDoesNotExist")
                       /\ \A g \in 1..Len(tenantObjs) :
                             g # h => tenantObjs'[g] = tenantObjs[g]
                       /\ (t.gen = "get" /\ HasStatus(out'.res, "StatusOk"))
                             => /\ t.table_id \in DOMAIN tenantObjs[h].tables
                                /\ key \in DOMAIN tenantObjs[h].tables[t.table_id]
                                /\ out'.res.payload
                                      = tenantObjs[h].tables[t.table_id][key].value
                       /\ (t.gen = "get" /\ ~HasStatus(out'.res, "StatusOk"))
                             => ~(/\ t.table_id \in DOMAIN tenantObjs[h].tables
                                  /\ key \in DOMAIN tenantObjs[h].tables[t.table_id]
                                  /\ HasStatus(out'.res, "StatusObjectDoesNotExist"))
                       /\ (t.gen = "put" /\ HasStatus(out'.res, "StatusOk"))
                             => tenantObjs'[h].tables[t.table_id][key].value
                                   = SubSeq(t.req.payload, t.key_length + 1,
                                            Len(t.req.payload))]_vars

\* A get of fill_test's first key was dispatched when the tenant held it; a
\* fill_test without objects replaced the tenant before the task ran; the
\* answer is StatusOk with the value of the tenant looked up at dispatch.
C34_Witness ==
    /\ FromTask /\ IsGet(out.req) /\ out.req.payload = FillKey(1)
    /\ out.seen.tenant # {}
    /\ get_tenant(out.req.tenant) # {}
    /\ get_tenant(out.req.tenant) # out.seen.tenant
    /\ out.req.table_id \in DOMAIN tenantObjs[The(get_tenant(out.req.tenant))].tables
    /\ tenantObjs[The(get_tenant(out.req.tenant))].tables[out.req.table_id] = <<>>
    /\ HasStatus(out.res, "StatusOk")
    /\ out.res.payload = FillVal(1)

\* A get was dispatched when no tenant of its id was registered; fill_test
\* registered one before the task ran; the answer is TenantDoesNotExist.
C34_WitnessInsertedLater ==
    /\ FromTask /\ IsGetPut(out.req)
    /\ out.seen.tenant = {}
    /\ get_tenant(out.req.tenant) # {}
    /\ HasStatus(out.res, "StatusTenantDoesNotExist")

C36_ResponseFreesOneSlot ==
    [][(/\ RecvStep
        /\ Popped.hdr = "InvokeResponse"
        /\ Popped.stamp >= 1 /\ Popped.stamp <= client.sent)
       => /\ client.outstanding > 0
          /\ client'.outstanding = client.outstanding - 1]_vars

(* C37: the client never sends more requests than it is configured for:    *)
(* sent <= requests in every reachable state.                               *)
C37_SentWithinRequests == client.sent <= client.requests

\* Once the client has set finished, recv() returns before it polls: a task
\* that waits in the manager map for the answer to its get stays there.
WaitingAfterFinishedStays ==
    [][\A id \in WaitingIds :
          client.finished => /\ id \in DOMAIN client'.manager
                             /\ client'.manager[id] = client.manager[id]]_vars

(* C38: every task the client accepts from a pushback response is run to    *)
(* COMPLETED on the client; in particular, once the client has set finished *)
(* no such task is left in the manager map, where it waits for the answer   *)
(* to a get it issued and can be woken by recv() only.                      *)
C38_NoTaskStranded == client.finished => WaitingIds = {}

\* The stamps of the tasks on the client's run-queue, in order.
QueuedIds == [i \in 1..Len(client.waiting) |-> get_id(client.waiting[i])]

(* C39: on the client each TaskManager, identified by its stamp, is in at   *)
(* most one of the manager map and the run-queue `waiting`, and at most     *)
(* once in the run-queue; the map holds it under its own stamp; and no      *)
(* stamp has completed twice or completed while a task of that stamp is     *)
(* still in the map or the queue.                                           *)
C39_TaskInOnePlace ==
    /\ \A i, j \in 1..Len(client.waiting) : QueuedIds[i] = QueuedIds[j] => i = j
    /\ \A i \in 1..Len(client.waiting) : QueuedIds[i] \notin DOMAIN client.manager
    /\ \A s \in DOMAIN client.manager : get_id(client.manager[s]) = s
    /\ \A m, n \in client.done : get_id(m) = get_id(n) => m = n
    /\ \A m \in client.done :
          /\ get_id(m) \notin DOMAIN client.manager
          /\ \A i \in 1..Len(client.waiting) : QueuedIds[i] # get_id(m)

\* One task has completed on the client, and another, woken by a get
\* response after it had waited in the manager map, is on the run-queue
\* while requests without a response are in the map.
C39_Witness ==
    /\ client.done # {}
    /\ \E i \in 1..Len(client.waiting) : client.waiting[i].state = "WAITING"
    /\ DOMAIN client.manager # {}

\* The thread is in abc(): in its loop.
InAbc(t) == ycsb.th[t].pc \in {"loop", "body"}

\* Until stop() is called, a thread that called abc() is in its loop.
YcsbRunsUntilStop ==
    [](\A t \in YcsbThreads :
          (~ycsb.done /\ ycsb.th[t].pc # "idle") => InAbc(t))

\* After stop(), every thread in abc() returns from it.
YcsbStopsThreads ==
    \A t \in YcsbThreads :
        (ycsb.done /\ InAbc(t)) ~> (ycsb.th[t].pc = "returned")

\* A thread that called abc() after stop() issues no operation.
YcsbLateIssuesNothing ==
    [](\A t \in YcsbThreads : ycsb.th[t].late => ycsb.th[t].ops = 0)

(* C40: every thread running abc() keeps issuing get/put operations until   *)
(* stop() is called; after stop() every such thread eventually returns from *)
(* abc(); a thread that calls abc() after stop() returns without issuing    *)
(* any operation.                                                           *)
C40_AbcRunsUntilStop ==
    /\ YcsbRunsUntilStop
    /\ YcsbStopsThreads
    /\ YcsbLateIssuesNothing

====
